---------------------------- MODULE Spec2Model ----------------------------
(***************************************************************************)
(* Model of the fuzzy bank-name clustering of processing-functions.js:     *)
(* BestNameMatcher (normalize, the five metrics, compare, categorize) and  *)
(* the 'close' handler of applyFuzzyMatchingToBankNames (the clustering    *)
(* loop over rows and the report files written after it).                  *)
(*                                                                         *)
(* Strings are sequences of one-character strings.  Scores are exact       *)
(* rationals <<n, d>> (value n/d, d > 0, in lowest terms); finalScore is   *)
(* kept in hundredths (7000 is 70.00), which is the value of               *)
(* Math.round(finalScore * 100) before the division by 100.  The source    *)
(* computes in IEEE doubles; the rationals are the exact values of the     *)
(* same expressions.                                                       *)
(***************************************************************************)
EXTENDS Integers, Sequences, FiniteSets, TLC

-----------------------------------------------------------------------------
(* Characters and JavaScript string primitives *)

UpperLetters ==
    << "A","B","C","D","E","F","G","H","I","J","K","L","M",
       "N","O","P","Q","R","S","T","U","V","W","X","Y","Z" >>

LowerLetters ==
    << "a","b","c","d","e","f","g","h","i","j","k","l","m",
       "n","o","p","q","r","s","t","u","v","w","x","y","z" >>

Range(f) == { f[i] : i \in DOMAIN f }

IndexIn(seq, c) == CHOOSE i \in 1..Len(seq) : seq[i] = c

IsUpper(c) == c \in Range(UpperLetters)

IsLower(c) == c \in Range(LowerLetters)

\* \s of a JavaScript regular expression and of String.prototype.trim,
\* restricted to the whitespace characters the model uses
IsSpace(c) == c \in {" ", "\t", "\n"}

Min2(a, b) == IF a <= b THEN a ELSE b

Max2(a, b) == IF a >= b THEN a ELSE b

\* null: a value that is no string (a string is a sequence of one-character strings)
Null == << "null" >>

\* !s of a string or null: null and the empty string are falsy
Falsy(s) == s = Null \/ s = << >>

\* String.prototype.toUpperCase
toUpperCase(s) ==
    [ i \in 1..Len(s) |->
        IF IsLower(s[i]) THEN UpperLetters[IndexIn(LowerLetters, s[i])] ELSE s[i] ]

RECURSIVE TrimLeft(_)
TrimLeft(s) ==
    IF s # << >> /\ IsSpace(Head(s)) THEN TrimLeft(Tail(s)) ELSE s

RECURSIVE TrimRight(_)
TrimRight(s) ==
    IF s # << >> /\ IsSpace(s[Len(s)]) THEN TrimRight(SubSeq(s, 1, Len(s) - 1)) ELSE s

\* String.prototype.trim
trim(s) == TrimRight(TrimLeft(s))

\* s.replace(/\s+/g, " "): every maximal run of whitespace becomes one space
RECURSIVE CollapseSpaces(_)
CollapseSpaces(s) ==
    IF s = << >> THEN << >>
    ELSE IF IsSpace(Head(s))
         THEN << " " >> \o CollapseSpaces(TrimLeft(s))
         ELSE << Head(s) >> \o CollapseSpaces(Tail(s))

\* s.split(' '): the pieces between single spaces (empty pieces included;
\* the empty string gives one empty piece)
RECURSIVE SplitFrom(_, _)
SplitFrom(s, cur) ==
    IF s = << >> THEN << cur >>
    ELSE IF Head(s) = " "
         THEN << cur >> \o SplitFrom(Tail(s), << >>)
         ELSE SplitFrom(Tail(s), Append(cur, Head(s)))

split(s) == SplitFrom(s, << >>)

\* tokens.join(' ')
RECURSIVE join(_)
join(toks) ==
    IF toks = << >> THEN << >>
    ELSE IF Len(toks) = 1 THEN toks[1]
    ELSE toks[1] \o << " " >> \o join(Tail(toks))

\* code-unit order of the characters of normalized strings (" " < "A" < ... < "Z")
CharOrd(c) == IF c = " " THEN 0 ELSE IndexIn(UpperLetters, c)

\* a < b in the default order of Array.prototype.sort (by code units)
RECURSIVE StrLess(_, _)
StrLess(a, b) ==
    IF b = << >> THEN FALSE
    ELSE IF a = << >> THEN TRUE
    ELSE IF Head(a) = Head(b) THEN StrLess(Tail(a), Tail(b))
    ELSE CharOrd(Head(a)) < CharOrd(Head(b))

RECURSIVE InsertSorted(_, _)
InsertSorted(sorted, x) ==
    IF sorted = << >> THEN << x >>
    ELSE IF StrLess(x, Head(sorted)) THEN << x >> \o sorted
    ELSE << Head(sorted) >> \o InsertSorted(Tail(sorted), x)

\* Array.prototype.sort() without a comparator (stable)
RECURSIVE sort(_)
sort(toks) ==
    IF toks = << >> THEN << >>
    ELSE InsertSorted(sort(SubSeq(toks, 1, Len(toks) - 1)), toks[Len(toks)])

\* [...new Set(tokens)]: first occurrences, in insertion order
RECURSIVE Unique(_)
Unique(toks) ==
    IF toks = << >> THEN << >>
    ELSE LET init == Unique(SubSeq(toks, 1, Len(toks) - 1))
             x    == toks[Len(toks)]
         IN  IF x \in Range(init) THEN init ELSE Append(init, x)

-----------------------------------------------------------------------------
(* Exact rationals *)

RECURSIVE GCD(_, _)
GCD(a, b) == IF b = 0 THEN a ELSE GCD(b, a % b)

LCM(a, b) == (a \div GCD(a, b)) * b

Frac(n, d) == LET g == GCD(n, d) IN IF n = 0 THEN << 0, 1 >> ELSE << n \div g, d \div g >>

FracAdd(x, y) ==
    LET l == LCM(x[2], y[2])
    IN  Frac(x[1] * (l \div x[2]) + y[1] * (l \div y[2]), l)

FracMul(x, y) ==
    LET g1 == GCD(x[1], y[2])
        g2 == GCD(y[1], x[2])
        a  == IF x[1] = 0 \/ y[1] = 0 THEN 0 ELSE (x[1] \div g1) * (y[1] \div g2)
        b  == IF x[1] = 0 \/ y[1] = 0 THEN 1 ELSE (x[2] \div g2) * (y[2] \div g1)
    IN  Frac(a, b)

\* Math.round of a non-negative rational: floor(x + 1/2)
Round(x) == (2 * x[1] + x[2]) \div (2 * x[2])

-----------------------------------------------------------------------------
(* BestNameMatcher *)

\* normalize without the final trim
normalizeNoTrim(input) ==
    CollapseSpaces(SelectSeq(toUpperCase(input), LAMBDA c : IsUpper(c) \/ c = " "))

\* BestNameMatcher.normalize
normalize(input) ==
    LET upper   == toUpperCase(input)
        letters == SelectSeq(upper, LAMBDA c : IsUpper(c) \/ c = " ")
    IN  trim(CollapseSpaces(letters))

\* LevRow with a substitution counted as a deletion and an insertion (cost 2)
RECURSIVE LevRowNoSubstitution(_, _, _, _)
LevRowNoSubstitution(prev, ch, t, cur) ==
    IF Len(cur) = Len(t) + 1 THEN cur
    ELSE LET j    == Len(cur)
             cost == IF ch = t[j] THEN 0 ELSE 2
             v    == Min2(Min2(prev[j + 1] + 1, cur[j] + 1), prev[j] + cost)
         IN  LevRowNoSubstitution(prev, ch, t, Append(cur, v))

\* one row of the dynamic-programming table: cur holds dp[i][0 .. Len(cur)-1],
\* prev holds dp[i-1][0 .. Len(t)]
RECURSIVE LevRow(_, _, _, _)
LevRow(prev, ch, t, cur) ==
    IF Len(cur) = Len(t) + 1 THEN cur
    ELSE LET j    == Len(cur)
             cost == IF ch = t[j] THEN 0 ELSE 1
             v    == Min2(Min2(prev[j + 1] + 1, cur[j] + 1), prev[j] + cost)
         IN  LevRow(prev, ch, t, Append(cur, v))

RECURSIVE LevRows(_, _, _, _)
LevRows(s, t, i, prev) ==
    IF i > Len(s) THEN prev
    ELSE LevRows(s, t, i + 1, LevRow(prev, s[i], t, << i >>))

\* dp[s.length][t.length]
levenshteinDistance(s, t) ==
    LevRows(s, t, 1, [ j \in 1..(Len(t) + 1) |-> j - 1 ])[Len(t) + 1]

\* BestNameMatcher.levenshteinScore
levenshteinScore(s, t) ==
    LET distance == levenshteinDistance(s, t)
        maxLen   == Max2(Len(s), Len(t))
    IN  IF maxLen = 0 THEN << 100, 1 >> ELSE Frac((maxLen - distance) * 100, maxLen)

SetMin(S) == CHOOSE x \in S : \A y \in S : x <= y

\* the matching loop of jaroSimilarity: the positions of s1 and of s2 marked used
RECURSIVE JaroMatches(_, _, _, _, _, _)
JaroMatches(s1, s2, matchDistance, i, m1, m2) ==
    IF i > Len(s1) THEN [ s1Matches |-> m1, s2Matches |-> m2 ]
    ELSE LET start == Max2(1, i - matchDistance)
             end   == Min2(i + matchDistance, Len(s2))
             cand  == { j \in start..end : j \notin m2 /\ s1[i] = s2[j] }
         IN  IF cand = {}
             THEN JaroMatches(s1, s2, matchDistance, i + 1, m1, m2)
             ELSE JaroMatches(s1, s2, matchDistance, i + 1,
                              m1 \cup {i}, m2 \cup {SetMin(cand)})

\* the characters of s at the positions of idx, in order
Matched(s, idx) == SelectSeq([ i \in 1..Len(s) |-> IF i \in idx THEN s[i] ELSE "" ],
                             LAMBDA c : c # "")

\* the transposition loop: the positions at which the matched characters of s1 and
\* of s2, each taken in order, differ
Transpositions(a, b) == Cardinality({ k \in 1..Len(a) : a[k] # b[k] })

\* (matches / s1.length + matches / s2.length
\*   + (matches - transpositions / 2) / matches) / 3
JaroValue(len1, len2, matches, transpositions) ==
    IF matches = 0 THEN << 0, 1 >>
    ELSE FracMul(<< 1, 3 >>,
           FracAdd(FracAdd(Frac(matches, len1), Frac(matches, len2)),
                   Frac(2 * matches - transpositions, 2 * matches)))

JaroOfMatches(s1, s2, mm) ==
    JaroValue(Len(s1), Len(s2), Cardinality(mm.s1Matches),
              Transpositions(Matched(s1, mm.s1Matches), Matched(s2, mm.s2Matches)))

\* BestNameMatcher.jaroSimilarity
jaroSimilarity(s1, s2) ==
    IF s1 = s2 THEN << 1, 1 >>
    ELSE JaroOfMatches(s1, s2,
           JaroMatches(s1, s2, (Max2(Len(s1), Len(s2)) \div 2) - 1, 1, {}, {}))

RECURSIVE CommonPrefix(_, _, _, _)
CommonPrefix(s1, s2, i, maxPrefix) ==
    IF i > maxPrefix \/ s1[i] # s2[i] THEN i - 1
    ELSE CommonPrefix(s1, s2, i + 1, maxPrefix)

\* (jaro + prefix * 0.1 * (1 - jaro)) * 100
WinklerBoost(jaro, prefix) ==
    FracMul(<< 100, 1 >>,
            FracAdd(jaro, FracMul(Frac(prefix, 10), Frac(jaro[2] - jaro[1], jaro[2]))))

\* BestNameMatcher.jaroWinklerScore
jaroWinklerScore(s1, s2) ==
    WinklerBoost(jaroSimilarity(s1, s2),
                 CommonPrefix(s1, s2, 1, Min2(4, Min2(Len(s1), Len(s2)))))

\* BestNameMatcher.tokenSortScore
tokenSortScore(s1, s2) ==
    levenshteinScore(join(sort(split(s1))), join(sort(split(s2))))

\* the comparison of [...intersection, ...diff1] with [...intersection, ...diff2]
TokenSetOf(set1, set2) ==
    levenshteinScore(
      join(SelectSeq(set1, LAMBDA x : x \in Range(set2))
           \o SelectSeq(set1, LAMBDA x : x \notin Range(set2))),
      join(SelectSeq(set1, LAMBDA x : x \in Range(set2))
           \o SelectSeq(set2, LAMBDA x : x \notin Range(set1))))

\* BestNameMatcher.tokenSetScore
tokenSetScore(s1, s2) == TokenSetOf(Unique(split(s1)), Unique(split(s2)))

\* the digit classes of soundex
SoundexDigit(c) ==
    IF c \in {"A","E","I","O","U","Y","H","W"} THEN "0"
    ELSE IF c \in {"B","F","P","V"} THEN "1"
    ELSE IF c \in {"C","G","J","K","Q","S","X","Z"} THEN "2"
    ELSE IF c \in {"D","T"} THEN "3"
    ELSE IF c = "L" THEN "4"
    ELSE IF c \in {"M","N"} THEN "5"
    ELSE IF c = "R" THEN "6"
    ELSE c

\* encoded.replace(/(.)\1+/g, "$1")
RECURSIVE CollapseRuns(_)
CollapseRuns(s) ==
    IF Len(s) <= 1 THEN s
    ELSE IF s[1] = s[2] THEN CollapseRuns(Tail(s))
    ELSE << s[1] >> \o CollapseRuns(Tail(s))

\* Substring1 keeping the whole encoded string
SubstringAll(encoded) == encoded

\* encoded.substring(1)
Substring1(encoded) == IF encoded = << >> THEN << >> ELSE Tail(encoded)

\* soundex of the letters s left by s.toUpperCase().replace(/[^A-Z]/g, "")
SoundexOfLetters(s) ==
    IF Len(s) = 0 THEN << >>
    ELSE SubSeq(<< s[1] >>
                \o Substring1(SelectSeq(CollapseRuns([ i \in 1..Len(s) |-> SoundexDigit(s[i]) ]),
                                        LAMBDA c : c # "0"))
                \o << "0", "0", "0" >>, 1, 4)

\* BestNameMatcher.soundex
soundex(s) ==
    IF Falsy(s) \/ trim(s) = << >> THEN << >>
    ELSE SoundexOfLetters(SelectSeq(toUpperCase(s), IsUpper))

\* BestNameMatcher.phoneticScore
phoneticScore(s1, s2) == IF soundex(s1) = soundex(s2) THEN << 100, 1 >> ELSE << 0, 1 >>

\* categorize with exclusive lower bounds
categorizeExclusive(score) ==
    IF score > 8500 THEN "STRONG_MATCH"
    ELSE IF score > 7000 THEN "POSSIBLE_MATCH"
    ELSE IF score > 6000 THEN "WEAK_MATCH"
    ELSE "NO_MATCH"

\* BestNameMatcher.categorize, on a score in hundredths
categorize(score) ==
    IF score >= 8500 THEN "STRONG_MATCH"
    ELSE IF score >= 7000 THEN "POSSIBLE_MATCH"
    ELSE IF score >= 6000 THEN "WEAK_MATCH"
    ELSE "NO_MATCH"

\* class MatchResult
MatchResult(scores, finalScore, category) ==
    [ scores |-> scores, finalScore |-> finalScore, category |-> category ]

noMatch == MatchResult(<< >>, 0, "NO_MATCH")

strongMatch(score) == MatchResult(<< >>, score, "STRONG_MATCH")

\* WeightedSum with the weights of levenshtein and jaroWinkler exchanged
WeightedSumSwapped(levenshtein, jaroWinkler, tokenSort, tokenSet, phonetic) ==
    Round(FracAdd(FracAdd(FracAdd(FracAdd(
            FracMul(levenshtein, << 30, 1 >>),
            FracMul(jaroWinkler, << 25, 1 >>)),
            FracMul(tokenSort, << 20, 1 >>)),
            FracMul(tokenSet, << 15, 1 >>)),
            FracMul(phonetic, << 10, 1 >>)))

\* levenshtein * 0.25 + jaroWinkler * 0.30 + tokenSort * 0.20 + tokenSet * 0.15
\* + phonetic * 0.10, then Math.round(finalScore * 100): the result in hundredths
WeightedSum(levenshtein, jaroWinkler, tokenSort, tokenSet, phonetic) ==
    LET sum == FracAdd(FracAdd(FracAdd(FracAdd(
                 FracMul(levenshtein, << 25, 1 >>),
                 FracMul(jaroWinkler, << 30, 1 >>)),
                 FracMul(tokenSort, << 20, 1 >>)),
                 FracMul(tokenSet, << 15, 1 >>)),
                 FracMul(phonetic, << 10, 1 >>))
    IN  Round(sum)

\* the MatchResult built from the five metric scores
ScoredResult(levenshtein, jaroWinkler, tokenSort, tokenSet, phonetic, finalScore) ==
    MatchResult([ LEVENSHTEIN  |-> levenshtein,
                  JARO_WINKLER |-> jaroWinkler,
                  TOKEN_SORT   |-> tokenSort,
                  TOKEN_SET    |-> tokenSet,
                  PHONETIC     |-> phonetic ],
                finalScore, categorize(finalScore))

CombineScores(levenshtein, jaroWinkler, tokenSort, tokenSet, phonetic) ==
    ScoredResult(levenshtein, jaroWinkler, tokenSort, tokenSet, phonetic,
                 WeightedSum(levenshtein, jaroWinkler, tokenSort, tokenSet, phonetic))

\* CompareNormalized without the shortcut for equal normalized names
CompareNormalizedNoShortcut(name1, name2) ==
    CombineScores(levenshteinScore(name1, name2),
                  jaroWinklerScore(name1, name2),
                  tokenSortScore(name1, name2),
                  tokenSetScore(name1, name2),
                  phoneticScore(name1, name2))

\* compare, from the normalized names on
CompareNormalized(name1, name2) ==
    IF name1 = name2 THEN strongMatch(10000)
    ELSE CombineScores(levenshteinScore(name1, name2),
                       jaroWinklerScore(name1, name2),
                       tokenSortScore(name1, name2),
                       tokenSetScore(name1, name2),
                       phoneticScore(name1, name2))

\* compare taking a name for blank when its normalized form is empty
compareBlankNormalized(rawName1, rawName2) ==
    IF Falsy(rawName1) \/ Falsy(rawName2)
         \/ normalize(rawName1) = << >> \/ normalize(rawName2) = << >>
    THEN noMatch
    ELSE CompareNormalized(normalize(rawName1), normalize(rawName2))

\* compare without the test for whitespace-only names
compareNoTrim(rawName1, rawName2) ==
    IF Falsy(rawName1) \/ Falsy(rawName2)
    THEN noMatch
    ELSE CompareNormalized(normalize(rawName1), normalize(rawName2))

\* BestNameMatcher.compare
compare(rawName1, rawName2) ==
    IF Falsy(rawName1) \/ Falsy(rawName2)
         \/ trim(rawName1) = << >> \/ trim(rawName2) = << >>
    THEN noMatch
    ELSE CompareNormalized(normalize(rawName1), normalize(rawName2))

-----------------------------------------------------------------------------
(* Insertion-ordered Map: a sequence of entries [key, value] with distinct keys *)

MapKeys(m) == [ i \in 1..Len(m) |-> m[i].key ]

\* Map.prototype.has
MapHas(m, k) == \E i \in 1..Len(m) : m[i].key = k

\* Map.prototype.get of a key the map has
MapGet(m, k) == m[CHOOSE i \in 1..Len(m) : m[i].key = k].value

\* Map.prototype.set: a present key keeps its position, a new key goes last
MapSet(m, k, v) ==
    IF MapHas(m, k)
    THEN [ i \in 1..Len(m) |-> IF m[i].key = k THEN [ key |-> k, value |-> v ] ELSE m[i] ]
    ELSE Append(m, [ key |-> k, value |-> v ])

-----------------------------------------------------------------------------
(* Inputs *)

\* the longest input of one run
MaxRecords == 4

\* bank names as they stand in rows (trimmed, without commas)
BoiSbm    == << "B","O","I"," ","S","B","M" >>
UbiSbm    == << "U","B","I"," ","S","B","M" >>
CbiSbm    == << "C","B","I"," ","S","B","M" >>
CbiSbmRaw == << "C","b","i"," "," ","S","b","m","." >>
CbiSbi    == << "C","B","I"," ","S","B","I" >>
Empty     == << >>
Digits12  == << "1","2" >>

\* a row as the 'line' handler pushes it (originalLine is not read afterwards)
Row(micr, ifsc, bankName) ==
    [ micr |-> micr, ifsc |-> ifsc, bankName |-> bankName,
      micrLen |-> "9", ifscLen |-> "11" ]

\* fields[k] || '' of the 'line' handler, for a field kept as one value
FieldOr(fields, k) == IF Len(fields) >= k THEN fields[k] ELSE ""

\* LineRow taking a missing bank name field for the string "undefined"
LineRowUndefined(fields) ==
    [ micr |-> FieldOr(fields, 1), ifsc |-> FieldOr(fields, 2),
      bankName |-> IF Len(fields) >= 3 THEN trim(fields[3])
                   ELSE << "u","n","d","e","f","i","n","e","d" >>,
      micrLen |-> FieldOr(fields, 4), ifscLen |-> FieldOr(fields, 5) ]

\* the row the 'line' handler pushes for a non-blank line that line.split(',') cuts
\* into fields (the MICR, IFSC and length fields are kept as one value each, without
\* surrounding whitespace; the bank name is a string)
LineRow(fields) ==
    [ micr |-> FieldOr(fields, 1), ifsc |-> FieldOr(fields, 2),
      bankName |-> trim(IF Len(fields) >= 3 THEN fields[3] ELSE << >>),
      micrLen |-> FieldOr(fields, 4), ifscLen |-> FieldOr(fields, 5) ]

\* rows of runs that are compared with a second run
PairPool ==
    { Row("M1", "I1", BoiSbm), Row("M5", "I9", BoiSbm),
      Row("M3", "I3", CbiSbm), Row("M5", "I5", CbiSbi) }

RowPool ==
    PairPool \cup
    { Row("M2", "I2", UbiSbm), Row("M4", "I4", CbiSbmRaw),
      LineRow(<< "M6" >>), LineRow(<< "M7", "I7", Digits12 >>) }

PoolNames == { row.bankName : row \in RowPool }

SeqsUpTo(S, n) == UNION { [ 1..k -> S ] : k \in 0..n }

\* the reorderings of a sequence
Reorderings(s) == { [ i \in 1..Len(s) |-> s[p[i]] ] : p \in Permutations(1..Len(s)) }

\* the sequences over PairPool with the bank names of s, in the order of s
SameNames(s) ==
    { t \in [ 1..Len(s) -> PairPool ] : \A i \in 1..Len(s) : t[i].bankName = s[i].bankName }

-----------------------------------------------------------------------------
(* applyFuzzyMatchingToBankNames: the 'close' handler *)

Runs == { 1, 2 }

VARIABLES
    rows,               \* rows[r]: the rows read by run r
    index,              \* index[r]: the number of rows the forEach loop has processed
    bankGroups,         \* bankGroups[r]: Map groupName -> members
    correctedBankNames, \* correctedBankNames[r]: Map original name -> corrected name
    pc,                 \* pc[r]: "loop" until the reports are written, then "done"
    files,              \* the report files in the working directory (shared by the runs)
    summary,            \* summary[r]: the value the promise resolves with
    matcher,            \* a call of a BestNameMatcher method: its arguments and result
    inputFile,          \* the uploaded input file: its kind and its lines or rows
    mapping,            \* bankMappingData: the rows of the bank mapping
    stage,              \* the stage of the process-all workflow that is running
    consumed,           \* consumed[s]: the lines the reader of stage s has delivered
    streams,            \* streams[f]: the lines handed to the write stream of file f
    disk,               \* disk[f]: the lines that are in file f, for the files read
    counters,           \* the counters of the stages
    workdir,            \* the files of the server's working directory
    history,            \* what requests have done since the directory was last clean
    response,           \* the route and the status of the last answer of the server
    backups,            \* the files of the backups directory
    clock,              \* the current time
    lastCleanup         \* what the last call of cleanupOldBackups saw and deleted

clusterVars ==
    << rows, index, bankGroups, correctedBankNames, pc, files, summary, matcher >>

pipelineVars == << inputFile, mapping, stage, consumed, streams, disk, counters >>

serverVars == << workdir, history, response >>

backupVars == << backups, clock, lastCleanup >>

vars == << clusterVars,
                    pipelineVars, serverVars, backupVars >>

-----------------------------------------------------------------------------
(* The files of the working directory and the variables at rest *)

\* the output files of filterCsvFile and filterArrayData
FilterFiles == { "invalid_records.csv", "valid_records.csv" }

\* the output files of compareIfscAndMicrWithBankMapping
CompareFiles ==
    { "ifsc_matched.csv", "ifsc_unmatched.csv", "micr_matched.csv",
      "micr_unmatched.csv", "ifsc_missing_micr_present.csv",
      "micr_missing_ifsc_present.csv", "ifsc_micr_both_unmatched.csv" }

\* the output file sortByIfsc is called with
SortedFile == "ifsc_micr_both_unmatched_sorted.csv"

\* the report files of applyFuzzyMatchingToBankNames
ReportFiles ==
    { "bank_names_corrected.csv", "only_corrected_bank_names.csv",
      "exact_matches_report.csv", "ifsc_matched_records.csv" }

\* the files the first three stages write through write streams
StreamFiles == FilterFiles \cup CompareFiles \cup { SortedFile }

\* the files among them that the next stage of the workflow reads
ReadFiles == { "valid_records.csv", "ifsc_micr_both_unmatched.csv", SortedFile }

\* the stages of the workflow that read a file line by line
Stages == { "filter", "compare", "sort", "fuzzy" }

\* a write stream: the lines handed to write(), in order (none before
\* fs.createWriteStream)
NoStream == [ open |-> FALSE, lines |-> << >> ]

\* a file that a stage reads: the lines that are in it
NoDiskFile == [ exists |-> FALSE, lines |-> << >> ]

NoCounters ==
    [ totalRecords |-> 0, correctRecords |-> 0, incorrectRecords |-> 0,
      iM |-> 0, iU |-> 0, mM |-> 0, mU |-> 0,
      ifscMissingMicrPresentCount |-> 0, micrMissingIfscPresentCount |-> 0,
      bothMissingCount |-> 0, sortedCount |-> 0 ]

NoInput == [ kind |-> "none", records |-> << >> ]

\* no workflow is running
PipelineAtRest ==
    /\ inputFile = NoInput
    /\ mapping = << >>
    /\ stage = "idle"
    /\ consumed = [ s \in Stages |-> << >> ]
    /\ streams = [ f \in StreamFiles |-> NoStream ]
    /\ disk = [ f \in ReadFiles |-> NoDiskFile ]
    /\ counters = NoCounters

NoResponse == [ route |-> "none", status |-> 0 ]

\* the server has answered no request and its working directory is clean
ServerAtRest ==
    /\ workdir = {}
    /\ history = {}
    /\ response = NoResponse

NoCleanup == [ ran |-> FALSE, now |-> 0, before |-> {}, deleted |-> {} ]

\* no backup exists
BackupsAtRest ==
    /\ backups = {}
    /\ clock = 0
    /\ lastCleanup = NoCleanup

\* BestNameMatcher.compare as the clustering calls it, evaluated once per pair of names
CompareTable == [ a \in PoolNames, b \in PoolNames |-> compare(a, b) ]

compareNames(a, b) == CompareTable[a, b]

\* JavaScript truthiness of bestMatch: << >> is null, << name >> is the string name
Truthy(bestMatch) == bestMatch # << >> /\ bestMatch[1] # << >>

\* no group chosen yet: bestMatch = null, bestScore = 0
NoBest == [ bestMatch |-> << >>, bestScore |-> 0 ]

\* Better with the threshold excluded (finalScore > 70)
BetterStrict(groupName, finalScore, best) ==
    IF finalScore > best.bestScore /\ finalScore > 7000
    THEN [ bestMatch |-> << groupName >>, bestScore |-> finalScore ]
    ELSE best

\* Better with finalScore >= bestScore: the last of several equal top scorers wins
BetterOrEqual(groupName, finalScore, best) ==
    IF finalScore >= best.bestScore /\ finalScore >= 7000
    THEN [ bestMatch |-> << groupName >>, bestScore |-> finalScore ]
    ELSE best

\* Better with the threshold of a WEAK_MATCH (finalScore >= 60)
BetterWeak(groupName, finalScore, best) ==
    IF finalScore > best.bestScore /\ finalScore >= 6000
    THEN [ bestMatch |-> << groupName >>, bestScore |-> finalScore ]
    ELSE best

\* the if statement of the loop over bankGroups.entries()
Better(groupName, finalScore, best) ==
    IF finalScore > best.bestScore /\ finalScore >= 7000
    THEN [ bestMatch |-> << groupName >>, bestScore |-> finalScore ]
    ELSE best

\* the loop over bankGroups.entries(), from entry i on
RECURSIVE ScanGroups(_, _, _, _)
ScanGroups(currentBankName, groups, i, best) ==
    IF i > Len(groups) THEN best
    ELSE ScanGroups(currentBankName, groups, i + 1,
                    Better(groups[i].key,
                           compareNames(currentBankName, groups[i].key).finalScore, best))

\* the scan with a break at the first group that scores at least 70
RECURSIVE ScanFirst(_, _, _)
ScanFirst(currentBankName, groups, i) ==
    IF i > Len(groups) THEN NoBest
    ELSE IF compareNames(currentBankName, groups[i].key).finalScore >= 7000
         THEN [ bestMatch |-> << groups[i].key >>,
                bestScore |-> compareNames(currentBankName, groups[i].key).finalScore ]
         ELSE ScanFirst(currentBankName, groups, i + 1)

FindBestMatchFirst(currentBankName, groups) == ScanFirst(currentBankName, groups, 1)

FindBestMatch(currentBankName, groups) == ScanGroups(currentBankName, groups, 1, NoBest)

\* Assign re-keying the group to the name that joins it (the last-seen name becomes
\* the canonical name)
AssignLastSeen(row, groups, corrected, bestMatch) ==
    IF Truthy(bestMatch)
    THEN [ bankGroups |->
             [ i \in 1..Len(groups) |->
                 IF groups[i].key = bestMatch[1]
                 THEN [ key |-> row.bankName, value |-> Append(groups[i].value, row) ]
                 ELSE groups[i] ],
           correctedBankNames |->
             Append([ i \in 1..Len(corrected) |->
                        IF corrected[i].value = bestMatch[1]
                        THEN [ key |-> corrected[i].key, value |-> row.bankName ]
                        ELSE corrected[i] ],
                    [ key |-> row.bankName, value |-> row.bankName ]) ]
    ELSE [ bankGroups |-> MapSet(groups, row.bankName, << row >>),
           correctedBankNames |-> MapSet(corrected, row.bankName, row.bankName) ]

\* Assign without bankGroups.set in the else branch
AssignForgetGroup(row, groups, corrected, bestMatch) ==
    IF Truthy(bestMatch)
    THEN [ bankGroups |->
             MapSet(groups, bestMatch[1], Append(MapGet(groups, bestMatch[1]), row)),
           correctedBankNames |-> MapSet(corrected, row.bankName, bestMatch[1]) ]
    ELSE [ bankGroups |-> groups,
           correctedBankNames |-> MapSet(corrected, row.bankName, row.bankName) ]

\* if (bestMatch) { push, set } else { set, set }
Assign(row, groups, corrected, bestMatch) ==
    IF Truthy(bestMatch)
    THEN [ bankGroups |->
             MapSet(groups, bestMatch[1], Append(MapGet(groups, bestMatch[1]), row)),
           correctedBankNames |-> MapSet(corrected, row.bankName, bestMatch[1]) ]
    ELSE [ bankGroups |-> MapSet(groups, row.bankName, << row >>),
           correctedBankNames |-> MapSet(corrected, row.bankName, row.bankName) ]

\* ProcessedRow without the early return: every row is matched again
ProcessedRowNoSkip(row, groups, corrected) ==
    Assign(row, groups, corrected, FindBestMatch(row.bankName, groups).bestMatch)

\* ProcessedRow pushing a row whose name has an entry to the group of that entry
ProcessedRowPushDup(row, groups, corrected) ==
    IF MapHas(corrected, row.bankName)
    THEN [ bankGroups |->
             IF MapHas(groups, MapGet(corrected, row.bankName))
             THEN MapSet(groups, MapGet(corrected, row.bankName),
                         Append(MapGet(groups, MapGet(corrected, row.bankName)), row))
             ELSE groups,
           correctedBankNames |-> corrected ]
    ELSE Assign(row, groups, corrected, FindBestMatch(row.bankName, groups).bestMatch)

\* ProcessedRow joining a new name to a group that holds a row with the same MICR
ProcessedRowByMicr(row, groups, corrected) ==
    IF MapHas(corrected, row.bankName)
    THEN [ bankGroups |-> groups, correctedBankNames |-> corrected ]
    ELSE IF \E i \in 1..Len(groups) : \E k \in 1..Len(groups[i].value) :
              groups[i].value[k].micr = row.micr
         THEN Assign(row, groups, corrected,
                     << groups[CHOOSE i \in 1..Len(groups) :
                                 \E k \in 1..Len(groups[i].value) :
                                   groups[i].value[k].micr = row.micr].key >>)
         ELSE Assign(row, groups, corrected, FindBestMatch(row.bankName, groups).bestMatch)

\* the state of the two maps after one call of the forEach callback on row
ProcessedRow(row, groups, corrected) ==
    IF MapHas(corrected, row.bankName)
    THEN [ bankGroups |-> groups, correctedBankNames |-> corrected ]
    ELSE Assign(row, groups, corrected, FindBestMatch(row.bankName, groups).bestMatch)

\* a report file: its header line and the lines written after it (bank names are
\* written between double quotes; a line is kept as the tuple of its field values)
File(header, lines) == [ header |-> header, lines |-> lines ]

NoFile == File(<< >>, << >>)

\* MatchScore without the test for equal names: the score is always recomputed
MatchScoreAlwaysCompare(bankName, correctedName) ==
    compareNames(bankName, correctedName).finalScore

\* row.bankName === correctedName ? 100 : compare(...).finalScore, in hundredths
MatchScore(bankName, correctedName) ==
    IF bankName = correctedName THEN 10000
    ELSE compareNames(bankName, correctedName).finalScore

\* bank_names_corrected.csv
CorrectedLines(rws, corrected) ==
    [ i \in 1..Len(rws) |->
        << rws[i].micr, rws[i].ifsc, rws[i].bankName,
           MapGet(corrected, rws[i].bankName),
           MatchScore(rws[i].bankName, MapGet(corrected, rws[i].bankName)),
           rws[i].micrLen, rws[i].ifscLen >> ]

\* NameCount counting the distinct rows that bear the name
NameCountDistinctRows(rws, original) ==
    Cardinality({ rws[i] : i \in { k \in 1..Len(rws) : rws[k].bankName = original } })

\* nameCounts.get(original) || 0
NameCount(rws, original) == Cardinality({ i \in 1..Len(rws) : rws[i].bankName = original })

\* only_corrected_bank_names.csv
OnlyCorrectedLines(rws, corrected) ==
    [ i \in 1..Len(corrected) |->
        << corrected[i].key, corrected[i].value, NameCount(rws, corrected[i].key) >> ]

\* one line of exact_matches_report.csv
GroupLine(groupName, members) ==
    << groupName, Len(members),
       Cardinality({ members[k].ifsc : k \in 1..Len(members) }),
       Cardinality({ members[k].micr : k \in 1..Len(members) }) >>

\* exact_matches_report.csv
ExactMatchesLines(groups) ==
    [ i \in 1..Len(groups) |-> GroupLine(groups[i].key, groups[i].value) ]

\* ifsc_matched_records.csv
MatchedRecordsLines(rws, corrected) ==
    [ i \in 1..Len(rws) |->
        << rws[i].micr, rws[i].ifsc, rws[i].bankName,
           MapGet(corrected, rws[i].bankName), rws[i].micrLen, rws[i].ifscLen >> ]

\* the four files as the handler leaves them
Reports(rws, groups, corrected) ==
    [ corrected |->
        File(<< "MICR", "IFSC", "OriginalBankName", "CorrectedBankName", "MatchScore",
                "MICR_Length", "IFSC_Length" >>, CorrectedLines(rws, corrected)),
      onlyCorrected |->
        File(<< "OriginalBankName", "CorrectedBankName", "RecordCount" >>,
             OnlyCorrectedLines(rws, corrected)),
      exactMatches |->
        File(<< "BankName", "RecordCount", "UniqueIFSCCodes", "UniqueMICRCodes" >>,
             ExactMatchesLines(groups)),
      matchedRecords |->
        File(<< "MICR", "IFSC", "OriginalBankName", "CorrectedBankName",
                "MICR_Length", "IFSC_Length" >>, MatchedRecordsLines(rws, corrected)) ]

\* Summary counting the corrected rows instead of the corrected names
SummaryCorrectedRows(rws, groups, corrected) ==
    [ totalRecords        |-> Len(rws),
      uniqueGroups        |-> Len(groups),
      originalUniqueNames |-> Cardinality({ rws[i].bankName : i \in 1..Len(rws) }),
      correctionsMade     |->
        Cardinality({ i \in 1..Len(rws) : MapGet(corrected, rws[i].bankName) # rws[i].bankName }) ]

\* the value the promise resolves with
Summary(rws, groups, corrected) ==
    [ totalRecords        |-> Len(rws),
      uniqueGroups        |-> Len(groups),
      originalUniqueNames |-> Cardinality({ rws[i].bankName : i \in 1..Len(rws) }),
      correctionsMade     |->
        Cardinality({ i \in 1..Len(corrected) : corrected[i].key # corrected[i].value }) ]

NoSummary == [ totalRecords |-> -1, uniqueGroups |-> -1,
               originalUniqueNames |-> -1, correctionsMade |-> -1 ]

\* no method of BestNameMatcher is being called on its own
NoCall == [ method |-> "none", args |-> << >>, result |-> << >> ]

\* the handler runs synchronously, so the handlers of two runs do not overlap; the
\* runs are numbered in the order in which their handlers run
NoOtherRunActive(r) == \A q \in Runs : q < r => pc[q] = "done"

\* the inputs of a second run that is compared with a run on s: none, or (for rows
\* of PairPool) a reordering of s or the bank names of s with other fields
SecondInputs(s) ==
    {<< >>} \cup
    IF Range(s) \subseteq PairPool THEN Reorderings(s) \cup SameNames(s) ELSE {}

Init ==
    /\ \E s \in SeqsUpTo(RowPool, MaxRecords) : \E t \in SecondInputs(s) :
         rows = [ r \in Runs |-> IF r = 1 THEN s ELSE t ]
    /\ index = [ r \in Runs |-> 0 ]
    /\ bankGroups = [ r \in Runs |-> << >> ]
    /\ correctedBankNames = [ r \in Runs |-> << >> ]
    /\ pc = [ r \in Runs |-> "loop" ]
    /\ files = [ corrected |-> NoFile, onlyCorrected |-> NoFile,
                 exactMatches |-> NoFile, matchedRecords |-> NoFile ]
    /\ summary = [ r \in Runs |-> NoSummary ]
    /\ matcher = NoCall
    /\ PipelineAtRest /\ ServerAtRest /\ BackupsAtRest

\* one call of the rows.forEach callback of the clustering loop
ProcessRow(r) ==
    /\ pc[r] = "loop"
    /\ index[r] < Len(rows[r])
    /\ NoOtherRunActive(r)
    /\ \E after \in { ProcessedRow(rows[r][index[r] + 1], bankGroups[r],
                                   correctedBankNames[r]) } :
         /\ bankGroups' = [ bankGroups EXCEPT ![r] = after.bankGroups ]
         /\ correctedBankNames' =
              [ correctedBankNames EXCEPT ![r] = after.correctedBankNames ]
    /\ index' = [ index EXCEPT ![r] = @ + 1 ]
    /\ UNCHANGED << rows, pc, files, summary, matcher,
                    pipelineVars, serverVars, backupVars >>

\* the rest of the handler, after the clustering loop: the reports and resolve(...)
WriteReports(r) ==
    /\ pc[r] = "loop"
    /\ index[r] = Len(rows[r])
    /\ NoOtherRunActive(r)
    /\ files' = Reports(rows[r], bankGroups[r], correctedBankNames[r])
    /\ summary' = [ summary EXCEPT ![r] =
                      Summary(rows[r], bankGroups[r], correctedBankNames[r]) ]
    /\ pc' = [ pc EXCEPT ![r] = "done" ]
    /\ UNCHANGED << rows, index, bankGroups, correctedBankNames, matcher,
                    pipelineVars, serverVars, backupVars >>

Next == \E r \in Runs : ProcessRow(r) \/ WriteReports(r)

Spec == Init /\ [][Next]_vars

\* the handler, once started, runs to its end
LiveSpec == Spec /\ WF_vars(Next)

-----------------------------------------------------------------------------
(* The methods of BestNameMatcher called on their own *)

\* the longest of the short arguments
MaxNameLen == 3

\* the characters of the short arguments
ShortChars == { "A", "B", " " }

\* every string of at most MaxNameLen characters of ShortChars
ShortNames == UNION { [ 1..n -> ShortChars ] : n \in 0..MaxNameLen }

TabBlank == << "\t", " " >>
Digits34 == << "3","4" >>
Smith    == << "S","m","i","t","h" >>
Smyth    == << "S","m","y","t","h" >>
Kitten   == << "K","I","T","T","E","N" >>
Sitting  == << "S","I","T","T","I","N","G" >>
TabbedName == << " ","a","\t","b"," "," ","c","1"," " >>

\* the arguments the methods are called with
ArgPool ==
    ShortNames \cup { Null, TabBlank, Digits12, Digits34, Smith, Smyth, Kitten, Sitting,
                      BoiSbm, CbiSbm, CbiSbmRaw, TabbedName }

\* scores in hundredths, on both sides of every threshold of categorize
ScorePool == { 0, 5999, 6000, 6999, 7000, 8499, 8500, 10000 }

\* a call about to be made with the arguments a and b
Pending(a, b) == [ method |-> "pending", args |-> << a, b >>, result |-> << >> ]

MatcherInit ==
    /\ rows = [ r \in Runs |-> << >> ]
    /\ index = [ r \in Runs |-> 0 ]
    /\ bankGroups = [ r \in Runs |-> << >> ]
    /\ correctedBankNames = [ r \in Runs |-> << >> ]
    /\ pc = [ r \in Runs |-> "loop" ]
    /\ files = [ corrected |-> NoFile, onlyCorrected |-> NoFile,
                 exactMatches |-> NoFile, matchedRecords |-> NoFile ]
    /\ summary = [ r \in Runs |-> NoSummary ]
    /\ \E a, b \in ArgPool : matcher = Pending(a, b)
    /\ PipelineAtRest /\ ServerAtRest /\ BackupsAtRest

\* BestNameMatcher.compare(rawName1, rawName2)
CallCompare ==
    /\ matcher.method = "pending"
    /\ matcher' = [ matcher EXCEPT !.method = "compare",
                                   !.result = compare(matcher.args[1], matcher.args[2]) ]
    /\ UNCHANGED << rows, index, bankGroups, correctedBankNames, pc, files, summary,
                    pipelineVars, serverVars, backupVars >>

\* BestNameMatcher.normalize(input), on a string
CallNormalize ==
    /\ matcher.method = "pending"
    /\ matcher.args[1] # Null
    /\ matcher' = [ matcher EXCEPT !.method = "normalize",
                                   !.result = normalize(matcher.args[1]) ]
    /\ UNCHANGED << rows, index, bankGroups, correctedBankNames, pc, files, summary,
                    pipelineVars, serverVars, backupVars >>

\* BestNameMatcher.levenshteinScore(s, t), on two strings
CallLevenshteinScore ==
    /\ matcher.method = "pending"
    /\ matcher.args[1] # Null
    /\ matcher.args[2] # Null
    /\ matcher' = [ matcher EXCEPT !.method = "levenshteinScore",
                                   !.result = levenshteinScore(matcher.args[1],
                                                               matcher.args[2]) ]
    /\ UNCHANGED << rows, index, bankGroups, correctedBankNames, pc, files, summary,
                    pipelineVars, serverVars, backupVars >>

\* BestNameMatcher.soundex(s)
CallSoundex ==
    /\ matcher.method = "pending"
    /\ matcher' = [ matcher EXCEPT !.method = "soundex",
                                   !.result = soundex(matcher.args[1]) ]
    /\ UNCHANGED << rows, index, bankGroups, correctedBankNames, pc, files, summary,
                    pipelineVars, serverVars, backupVars >>

\* BestNameMatcher.categorize(score)
CallCategorize ==
    /\ matcher.method = "pending"
    /\ \E score \in ScorePool :
         matcher' = [ method |-> "categorize", args |-> << score >>,
                      result |-> categorize(score) ]
    /\ UNCHANGED << rows, index, bankGroups, correctedBankNames, pc, files, summary,
                    pipelineVars, serverVars, backupVars >>

MatcherNext ==
    CallCompare \/ CallNormalize \/ CallLevenshteinScore \/ CallSoundex \/ CallCategorize

MatcherSpec == MatcherInit /\ [][MatcherNext]_vars

-----------------------------------------------------------------------------
(* The validation, comparison and sorting stages and the process-all workflow *)

\* the most lines or rows of an uploaded input file
MaxLines == 2

\* line.split(','): the pieces between commas
RECURSIVE SplitAtComma(_, _)
SplitAtComma(s, cur) ==
    IF s = << >> THEN << cur >>
    ELSE IF Head(s) = ","
         THEN << cur >> \o SplitAtComma(Tail(s), << >>)
         ELSE SplitAtComma(Tail(s), Append(cur, Head(s)))

splitComma(line) == SplitAtComma(line, << >>)

\* row.join(','): a null or undefined cell gives the empty string
RECURSIVE joinComma(_)
joinComma(cells) ==
    IF cells = << >> THEN << >>
    ELSE (IF Head(cells) = Null THEN << >> ELSE Head(cells))
         \o (IF Len(cells) = 1 THEN << >> ELSE << "," >> \o joinComma(Tail(cells)))

\* the lines that text + '\n' adds to a file (a reader cuts the file at "\n")
RECURSIVE SplitAtNewline(_, _)
SplitAtNewline(s, cur) ==
    IF s = << >> THEN << cur >>
    ELSE IF Head(s) = "\n"
         THEN << cur >> \o SplitAtNewline(Tail(s), << >>)
         ELSE SplitAtNewline(Tail(s), Append(cur, Head(s)))

LinesOf(text) == SplitAtNewline(text, << >>)

\* (fields[k] || ''), the fields counted from 1; a cell is a string or null
FieldOrEmpty(fields, k) ==
    IF Len(fields) >= k /\ ~Falsy(fields[k]) THEN fields[k] ELSE << >>

\* the characters that `.` of a regular expression does not match
IsLineTerminator(c) == c \in { "\n", "\r" }

\* /^.{n}$/.test(s)
TestAnyTimes(s, n) == Len(s) = n /\ \A i \in 1..Len(s) : ~IsLineTerminator(s[i])

MicrLength == 9

IfscLength == 11

\* the test with "or" between its two halves
IsValidEither(fields) ==
    \/ TestAnyTimes(trim(FieldOrEmpty(fields, 1)), MicrLength)
    \/ TestAnyTimes(trim(FieldOrEmpty(fields, 2)), IfscLength)

\* the test of the 'line' handler of filterCsvFile and of the callback of
\* filterArrayData on the fields of a record
IsValid(fields) ==
    /\ TestAnyTimes(trim(FieldOrEmpty(fields, 1)), MicrLength)
    /\ TestAnyTimes(trim(FieldOrEmpty(fields, 2)), IfscLength)

\* stream.write(text + '\n') on the streams of the files in fs
Written(strs, fs, text) ==
    [ f \in DOMAIN strs |->
        IF f \in fs THEN [ strs[f] EXCEPT !.lines = @ \o LinesOf(text) ] ELSE strs[f] ]

\* fs.createWriteStream(f) for the files in fs
Created(strs, fs) ==
    [ f \in DOMAIN strs |->
        IF f \in fs THEN [ open |-> TRUE, lines |-> << >> ] ELSE strs[f] ]

\* the if / else of the validation: one counter and one write
Filtered(fields, text, cnt, strs) ==
    IF IsValid(fields)
    THEN [ counters |-> [ cnt EXCEPT !.correctRecords = @ + 1 ],
           streams  |-> Written(strs, { "valid_records.csv" }, text) ]
    ELSE [ counters |-> [ cnt EXCEPT !.incorrectRecords = @ + 1 ],
           streams  |-> Written(strs, { "invalid_records.csv" }, text) ]

\* records.forEach(...) of filterArrayData from record i on
RECURSIVE FilterRows(_, _, _, _)
FilterRows(records, i, cnt, strs) ==
    IF i > Len(records) THEN [ counters |-> cnt, streams |-> strs ]
    ELSE FilterRows(records, i + 1,
                    Filtered(records[i], joinComma(records[i]), cnt, strs).counters,
                    Filtered(records[i], joinComma(records[i]), cnt, strs).streams)

\* ifscSet: the trimmed IFSC cells of the mapping that have 11 characters
ifscSet(bankMappingData) ==
    { code \in { trim(FieldOrEmpty(bankMappingData[i], 2)) :
                   i \in 1..Len(bankMappingData) } : Len(code) = IfscLength }

\* micrSet: the trimmed MICR cells of the mapping that have 9 characters
micrSet(bankMappingData) ==
    { code \in { trim(FieldOrEmpty(bankMappingData[i], 3)) :
                   i \in 1..Len(bankMappingData) } : Len(code) = MicrLength }

\* the files a line of the comparison is written to
\* (a line with a found IFSC and a missing MICR taken for a line with both missing)
ClassFilesBothOnMicr(ifscExists, micrExists) ==
    IF ifscExists /\ micrExists
    THEN { "ifsc_matched.csv", "micr_matched.csv" }
    ELSE IF ~ifscExists /\ micrExists
    THEN { "ifsc_missing_micr_present.csv", "ifsc_unmatched.csv", "micr_matched.csv" }
    ELSE { "ifsc_micr_both_unmatched.csv", "ifsc_unmatched.csv", "micr_unmatched.csv" }

\* the files a line of the comparison is written to
ClassFiles(ifscExists, micrExists) ==
    IF ifscExists /\ micrExists
    THEN { "ifsc_matched.csv", "micr_matched.csv" }
    ELSE IF ~ifscExists /\ micrExists
    THEN { "ifsc_missing_micr_present.csv", "ifsc_unmatched.csv", "micr_matched.csv" }
    ELSE IF ifscExists /\ ~micrExists
    THEN { "micr_missing_ifsc_present.csv", "ifsc_matched.csv", "micr_unmatched.csv" }
    ELSE { "ifsc_micr_both_unmatched.csv", "ifsc_unmatched.csv", "micr_unmatched.csv" }

\* the counters after a line of the comparison
ClassCounters(cnt, ifscExists, micrExists) ==
    [ cnt EXCEPT
        !.iM = IF ifscExists THEN @ + 1 ELSE @,
        !.iU = IF ifscExists THEN @ ELSE @ + 1,
        !.mM = IF micrExists THEN @ + 1 ELSE @,
        !.mU = IF micrExists THEN @ ELSE @ + 1,
        !.ifscMissingMicrPresentCount = IF ~ifscExists /\ micrExists THEN @ + 1 ELSE @,
        !.micrMissingIfscPresentCount = IF ifscExists /\ ~micrExists THEN @ + 1 ELSE @,
        !.bothMissingCount = IF ~ifscExists /\ ~micrExists THEN @ + 1 ELSE @ ]

\* the characters of the codes that are sorted, in the order of localeCompare
Alphanumerics ==
    << "0","1","2","3","4","5","6","7","8","9" >> \o UpperLetters

\* a.localeCompare(b) < 0, for strings of digits and upper-case letters
RECURSIVE LocaleLess(_, _)
LocaleLess(a, b) ==
    IF b = << >> THEN FALSE
    ELSE IF a = << >> THEN TRUE
    ELSE IF Head(a) = Head(b) THEN LocaleLess(Tail(a), Tail(b))
    ELSE IndexIn(Alphanumerics, Head(a)) < IndexIn(Alphanumerics, Head(b))

\* the row the 'line' handler of sortByIfsc pushes
SortRow(line) == [ ifsc |-> trim(FieldOrEmpty(splitComma(line), 2)), line |-> line ]

RECURSIVE InsertByIfsc(_, _)
InsertByIfsc(sorted, r) ==
    IF sorted = << >> THEN << r >>
    ELSE IF LocaleLess(r.ifsc, sorted[Len(sorted)].ifsc)
         THEN Append(InsertByIfsc(SubSeq(sorted, 1, Len(sorted) - 1), r),
                     sorted[Len(sorted)])
         ELSE Append(sorted, r)

\* rows.sort((a, b) => a.ifsc.localeCompare(b.ifsc)) (stable)
RECURSIVE SortedByIfsc(_)
SortedByIfsc(rs) ==
    IF rs = << >> THEN << >>
    ELSE InsertByIfsc(SortedByIfsc(SubSeq(rs, 1, Len(rs) - 1)), rs[Len(rs)])

\* the rows of sortByIfsc after the lines it was given: blank lines are skipped
RECURSIVE SortRows(_)
SortRows(lines) ==
    IF lines = << >> THEN << >>
    ELSE IF trim(Head(lines)) = << >> THEN SortRows(Tail(lines))
    ELSE << SortRow(Head(lines)) >> \o SortRows(Tail(lines))

\* for (const r of rows) out.write(r.line + '\n')
RECURSIVE WrittenRows(_, _, _)
WrittenRows(strs, f, rs) ==
    IF rs = << >> THEN strs
    ELSE WrittenRows(Written(strs, { f }, Head(rs).line), f, Tail(rs))

\* the file the reader of a stage is created on
InputFile(s) ==
    IF s = "compare" THEN "valid_records.csv"
    ELSE IF s = "sort" THEN "ifsc_micr_both_unmatched.csv"
    ELSE SortedFile

(* Inputs of the workflow *)

MicrA  == << "1","1","0","0","0","2","0","0","1" >>
MicrB  == << "2","2","0","0","0","2","0","0","2" >>
Micr8  == << "1","1","0","0","0","2","0","0" >>
MicrNl == << "1","1","0","0","\n","2","0","0","1" >>
IfscA  == << "S","B","I","N","0","0","0","0","0","0","1" >>
IfscB  == << "H","D","F","C","0","0","0","0","0","0","2" >>
IfscC  == << "B","A","R","B","0","0","0","0","0","0","3" >>
Ifsc10 == << "S","B","I","N","0","0","0","0","0","0" >>

Pad(s) == << " " >> \o s \o << " " >>

\* the lines of uploaded .csv files
CsvLinePool ==
    { joinComma(<< MicrA, IfscA, BoiSbm >>), joinComma(<< MicrA, IfscB, UbiSbm >>),
      joinComma(<< MicrB, IfscA, CbiSbm >>), joinComma(<< MicrB, IfscB, CbiSbm >>),
      joinComma(<< Pad(MicrB), Pad(IfscC), CbiSbmRaw >>),
      joinComma(<< Micr8, IfscA, BoiSbm >>), MicrA, << " ", "\t" >>, << >> }

\* the rows of uploaded .xlsx and .json files
ArrayRowPool ==
    { << MicrA, IfscA, BoiSbm >>, << MicrB, IfscB, CbiSbm >>, << Pad(MicrB), IfscC >>,
      << MicrNl, IfscA, BoiSbm >>, << Null, IfscA >>, << MicrA >>, << >> }

\* a row of the bank mapping: bank id, IFSC, MICR
MappingRow(ifsc, micr) == << << "7" >>, ifsc, micr >>

MappingPool ==
    { << >>,
      << MappingRow(IfscA, MicrA) >>,
      << MappingRow(Pad(IfscA), Null), MappingRow(Ifsc10, Pad(MicrB)) >> }

InputPool ==
    { [ kind |-> "csv", records |-> s ] : s \in SeqsUpTo(CsvLinePool, MaxLines) }
    \cup { [ kind |-> "array", records |-> s ] : s \in SeqsUpTo(ArrayRowPool, MaxLines) }

\* a process-all request with its two files: filterCsvFile has created its streams
\* and its reader, filterArrayData has not been called yet
ProcessAllInit ==
    /\ rows = [ r \in Runs |-> << >> ]
    /\ index = [ r \in Runs |-> 0 ]
    /\ bankGroups = [ r \in Runs |-> << >> ]
    /\ correctedBankNames = [ r \in Runs |-> << >> ]
    /\ pc = [ r \in Runs |-> "loop" ]
    /\ files = [ corrected |-> NoFile, onlyCorrected |-> NoFile,
                 exactMatches |-> NoFile, matchedRecords |-> NoFile ]
    /\ summary = [ r \in Runs |-> NoSummary ]
    /\ matcher = NoCall
    /\ ServerAtRest /\ BackupsAtRest
    /\ \E in \in InputPool : \E m \in MappingPool :
         /\ inputFile = in
         /\ mapping = m
         /\ streams = IF in.kind = "csv"
                      THEN Created([ f \in StreamFiles |-> NoStream ], FilterFiles)
                      ELSE [ f \in StreamFiles |-> NoStream ]
    /\ stage = "filter"
    /\ consumed = [ s \in Stages |-> << >> ]
    /\ disk = [ f \in ReadFiles |-> NoDiskFile ]
    /\ counters = NoCounters

\* the 'line' handler of filterCsvFile
FilterLine ==
    /\ stage = "filter"
    /\ inputFile.kind = "csv"
    /\ Len(consumed["filter"]) < Len(inputFile.records)
    /\ \E line \in { inputFile.records[Len(consumed["filter"]) + 1] } :
         /\ consumed' = [ consumed EXCEPT !["filter"] = Append(@, line) ]
         /\ IF trim(line) = << >>
            THEN UNCHANGED << counters, streams >>
            ELSE \E after \in { Filtered(splitComma(line), line,
                                         [ counters EXCEPT !.totalRecords = @ + 1 ],
                                         streams) } :
                   /\ counters' = after.counters
                   /\ streams' = after.streams
    /\ UNCHANGED << inputFile, mapping, stage, disk, clusterVars, serverVars, backupVars >>

\* the 'close' handler of filterCsvFile: end() on both streams, then resolve(...),
\* which lets the workflow go on to the call of compareIfscAndMicrWithBankMapping
\* (its seven write streams and its reader are created)
FilterClose ==
    /\ stage = "filter"
    /\ inputFile.kind = "csv"
    /\ Len(consumed["filter"]) = Len(inputFile.records)
    /\ stage' = "compare"
    /\ streams' = Created(streams, CompareFiles)
    /\ UNCHANGED << inputFile, mapping, consumed, disk, counters,
                    clusterVars, serverVars, backupVars >>

\* filterArrayData(records), and the workflow up to the call of
\* compareIfscAndMicrWithBankMapping
FilterArrayData ==
    /\ stage = "filter"
    /\ inputFile.kind = "array"
    /\ \E after \in { FilterRows(inputFile.records, 1,
                                 [ counters EXCEPT !.totalRecords = Len(inputFile.records) ],
                                 Created(streams, FilterFiles)) } :
         /\ counters' = after.counters
         /\ streams' = Created(after.streams, CompareFiles)
    /\ stage' = "compare"
    /\ UNCHANGED << inputFile, mapping, consumed, disk, clusterVars, serverVars, backupVars >>

\* the reader of stage s delivers the next line that is in its input file
NextLine(s) == disk[InputFile(s)].lines[Len(consumed[s]) + 1]

HasNextLine(s) ==
    /\ disk[InputFile(s)].exists
    /\ Len(consumed[s]) < Len(disk[InputFile(s)].lines)

\* the reader of stage s finds the end of its input file
AtEndOfFile(s) ==
    /\ disk[InputFile(s)].exists
    /\ Len(consumed[s]) = Len(disk[InputFile(s)].lines)

\* the 'line' handler of compareIfscAndMicrWithBankMapping
CompareLine ==
    /\ stage = "compare"
    /\ HasNextLine("compare")
    /\ \E line \in { NextLine("compare") } :
         /\ consumed' = [ consumed EXCEPT !["compare"] = Append(@, line) ]
         /\ \E ifscExists \in
                { trim(FieldOrEmpty(splitComma(line), 2)) \in ifscSet(mapping) } :
            \E micrExists \in
                { trim(FieldOrEmpty(splitComma(line), 1)) \in micrSet(mapping) } :
              /\ counters' = ClassCounters(counters, ifscExists, micrExists)
              /\ streams' = Written(streams, ClassFiles(ifscExists, micrExists), line)
    /\ UNCHANGED << inputFile, mapping, stage, disk, clusterVars, serverVars, backupVars >>

\* the 'close' handler of compareIfscAndMicrWithBankMapping: end() on the seven
\* streams, then resolve(...), which lets the workflow go on to sortByIfsc
CompareClose ==
    /\ stage = "compare"
    /\ AtEndOfFile("compare")
    /\ stage' = "sort"
    /\ UNCHANGED << inputFile, mapping, consumed, streams, disk, counters,
                    clusterVars, serverVars, backupVars >>

\* the 'line' handler of sortByIfsc
SortLine ==
    /\ stage = "sort"
    /\ HasNextLine("sort")
    /\ consumed' = [ consumed EXCEPT !["sort"] = Append(@, NextLine("sort")) ]
    /\ UNCHANGED << inputFile, mapping, stage, streams, disk, counters,
                    clusterVars, serverVars, backupVars >>

\* the 'close' handler of sortByIfsc: the rows are sorted and written, end(), then
\* resolve(rows.length), which lets the workflow go on to
\* applyFuzzyMatchingToBankNames
SortClose ==
    /\ stage = "sort"
    /\ AtEndOfFile("sort")
    /\ \E rs \in { SortedByIfsc(SortRows(consumed["sort"])) } :
         /\ streams' = WrittenRows(Created(streams, { SortedFile }), SortedFile, rs)
         /\ counters' = [ counters EXCEPT !.sortedCount = Len(rs) ]
    /\ stage' = "fuzzy"
    /\ UNCHANGED << inputFile, mapping, consumed, disk, clusterVars, serverVars, backupVars >>

\* the 'line' handler of applyFuzzyMatchingToBankNames takes a line of the sorted
\* file
FuzzyLine ==
    /\ stage = "fuzzy"
    /\ HasNextLine("fuzzy")
    /\ consumed' = [ consumed EXCEPT !["fuzzy"] = Append(@, NextLine("fuzzy")) ]
    /\ UNCHANGED << inputFile, mapping, stage, streams, disk, counters,
                    clusterVars, serverVars, backupVars >>

\* the reader of applyFuzzyMatchingToBankNames finds the end of the sorted file: the
\* 'close' handler clusters the rows it was given
FuzzyClose ==
    /\ stage = "fuzzy"
    /\ AtEndOfFile("fuzzy")
    /\ stage' = "done"
    /\ UNCHANGED << inputFile, mapping, consumed, streams, disk, counters,
                    clusterVars, serverVars, backupVars >>

\* the reader of a stage opens its input file before the write stream of the stage
\* before it has created the file: the open fails and the stage never closes
ReadFails ==
    /\ stage \in { "compare", "sort", "fuzzy" }
    /\ ~disk[InputFile(stage)].exists
    /\ stage' = "failed"
    /\ UNCHANGED << inputFile, mapping, consumed, streams, disk, counters,
                    clusterVars, serverVars, backupVars >>

\* a write stream works on its own, after write() and end() have returned: it
\* creates its file, then moves what it was handed into the file, in order (followed
\* for the files that a stage reads)
Flush(f) ==
    /\ streams[f].open
    /\ \/ /\ ~disk[f].exists
          /\ disk' = [ disk EXCEPT ![f] = [ exists |-> TRUE, lines |-> << >> ] ]
       \/ /\ disk[f].exists
          /\ Len(disk[f].lines) < Len(streams[f].lines)
          /\ disk' = [ disk EXCEPT ![f].lines =
                         Append(@, streams[f].lines[Len(@) + 1]) ]
    /\ UNCHANGED << inputFile, mapping, stage, consumed, streams, counters,
                    clusterVars, serverVars, backupVars >>

ProcessAllNext ==
    \/ FilterLine \/ FilterClose \/ FilterArrayData
    \/ CompareLine \/ CompareClose
    \/ SortLine \/ SortClose
    \/ FuzzyLine \/ FuzzyClose
    \/ ReadFails
    \/ \E f \in ReadFiles : Flush(f)

ProcessAllSpec == ProcessAllInit /\ [][ProcessAllNext]_vars

-----------------------------------------------------------------------------
(* The routes of the server and the backups directory *)

\* the last time of the clock (the server starts at 0; the time is in half days)
MaxClock == 3

\* oneWeekInMs, in half days
OneWeek == 14

\* the period of setInterval, in half days
CleanupPeriod == 2

TempMapping == "temp_bank_mapping.json"

\* filesToDelete of DELETE /api/cleanup
WorkFiles == StreamFiles \cup ReportFiles \cup { TempMapping }

\* filesToBackup of backupExistingFiles
BackupNames == StreamFiles \cup ReportFiles

Answer(route, status) == [ route |-> route, status |-> status ]

\* what the input file of a request is: missing; of an extension that readBankFile
\* rejects; a .json file whose value is not an array of rows; a file of records
Uploads == { "none", "unsupported", "malformed", "records" }

\* a file of the backups directory whose name holds a time stamp, and one whose
\* name holds none
Stamped(name, stamp) == [ name |-> name, stamped |-> TRUE, stamp |-> stamp ]

Unstamped(name) == [ name |-> name, stamped |-> FALSE, stamp |-> 0 ]

\* new Date(s) for s = "YYYY:MM:DD HH:MM:SS", made from the UTC time in the file
\* name: the format is not one that Date has to parse, so the date is invalid or
\* the digits are read as a local time
Readings ==
    { [ valid |-> FALSE, offset |-> 0 ] }
    \cup { [ valid |-> TRUE, offset |-> o ] : o \in { -1, 0, 1 } }

\* the files of the directory that cleanupOldBackups deletes: age > oneWeekInMs is
\* false for an invalid date
Deleted(dir, now, reading) ==
    { f \in dir : /\ f.stamped
                  /\ reading.valid
                  /\ now - (f.stamp + reading.offset) > OneWeek }

\* what a call of cleanupOldBackups saw and did
CleanupRecord(dir, now, reading) ==
    [ ran |-> TRUE, now |-> now, before |-> dir, deleted |-> Deleted(dir, now, reading) ]

\* backupExistingFiles after its call of cleanupOldBackups: the listed files that
\* exist and hold more than 100 bytes are copied under the current time stamp
Copied(dir, now, big) == dir \cup { Stamped(f, now) : f \in big }

\* the files of the working directory of more than 100 bytes: here none of them or
\* all that exist
BigFiles(dir) == { {}, dir \cap BackupNames }

\* the files the workflow has created when it ends on what it was uploaded
Produced(upload, mappingLoads) ==
    IF upload \in { "none", "unsupported" } THEN {}
    ELSE IF upload = "malformed" \/ ~mappingLoads THEN FilterFiles
    ELSE StreamFiles \cup ReportFiles

\* the events a request adds to the history on what it was uploaded
Events(route, upload, mappingLoads) ==
    IF upload \in { "none", "unsupported" } THEN {}
    ELSE IF upload = "malformed" \/ ~mappingLoads THEN { "validation" }
    ELSE { "validation", route }

\* backups left in the directory by earlier runs of the server
OldBackups ==
    { Stamped("valid_records.csv", -15), Stamped("invalid_records.csv", -15),
      Stamped("valid_records.csv", -13), Unstamped("notes.txt") }

\* the server has started in a clean working directory
ServerInit ==
    /\ rows = [ r \in Runs |-> << >> ]
    /\ index = [ r \in Runs |-> 0 ]
    /\ bankGroups = [ r \in Runs |-> << >> ]
    /\ correctedBankNames = [ r \in Runs |-> << >> ]
    /\ pc = [ r \in Runs |-> "loop" ]
    /\ files = [ corrected |-> NoFile, onlyCorrected |-> NoFile,
                 exactMatches |-> NoFile, matchedRecords |-> NoFile ]
    /\ summary = [ r \in Runs |-> NoSummary ]
    /\ matcher = NoCall
    /\ PipelineAtRest
    /\ ServerAtRest
    /\ BackupsAtRest

\* POST /api/upload/input
UploadInput ==
    /\ \E upload \in Uploads :
         /\ response' = Answer("upload/input",
                               IF upload = "none" THEN 400
                               ELSE IF upload = "records" THEN 200 ELSE 500)
         /\ workdir' = workdir \cup Produced(upload, FALSE)
         /\ history' = history \cup Events("upload/input", upload, FALSE)
                               \cup (IF upload = "records" THEN { "upload/input" } ELSE {})
    /\ UNCHANGED << clusterVars, pipelineVars, backupVars >>

\* POST /api/upload/bank-mapping
UploadBankMapping ==
    /\ \E upload \in { "none", "unsupported", "records" } :
         /\ response' = Answer("upload/bank-mapping",
                               IF upload = "none" THEN 400
                               ELSE IF upload = "records" THEN 200 ELSE 500)
         /\ workdir' = IF upload = "records" THEN workdir \cup { TempMapping }
                       ELSE workdir
         /\ history' = IF upload = "records" THEN history \cup { "upload/bank-mapping" }
                       ELSE history
    /\ UNCHANGED << clusterVars, pipelineVars, backupVars >>

\* POST /api/compare without the test for temp_bank_mapping.json
CompareWithoutMappingTest ==
    /\ IF "valid_records.csv" \in workdir
       THEN /\ response' = Answer("compare", 200)
            /\ workdir' = workdir \cup CompareFiles \cup { SortedFile }
            /\ history' = history \cup { "compare" }
       ELSE /\ response' = Answer("compare", 400)
            /\ UNCHANGED << workdir, history >>
    /\ UNCHANGED << clusterVars, pipelineVars, backupVars >>

\* POST /api/compare
Compare ==
    /\ IF "valid_records.csv" \in workdir /\ TempMapping \in workdir
       THEN /\ response' = Answer("compare", 200)
            /\ workdir' = workdir \cup CompareFiles \cup { SortedFile }
            /\ history' = history \cup { "compare" }
       ELSE /\ response' = Answer("compare", 400)
            /\ UNCHANGED << workdir, history >>
    /\ UNCHANGED << clusterVars, pipelineVars, backupVars >>

\* POST /api/fuzzy-match
FuzzyMatch ==
    /\ IF SortedFile \in workdir
       THEN /\ response' = Answer("fuzzy-match", 200)
            /\ workdir' = workdir \cup ReportFiles
            /\ history' = history \cup { "fuzzy-match" }
       ELSE /\ response' = Answer("fuzzy-match", 400)
            /\ UNCHANGED << workdir, history >>
    /\ UNCHANGED << clusterVars, pipelineVars, backupVars >>

\* POST /api/process-all
ProcessAll ==
    /\ \E upload \in Uploads : \E mappingLoads \in BOOLEAN :
         /\ response' = Answer("process-all",
                               IF upload = "none" THEN 400
                               ELSE IF upload = "records" /\ mappingLoads THEN 200
                               ELSE 500)
         /\ workdir' = workdir \cup Produced(upload, mappingLoads)
         /\ history' = history \cup Events("process-all", upload, mappingLoads)
         /\ IF upload = "none"
            THEN UNCHANGED << backups, lastCleanup >>
            ELSE \E reading \in Readings : \E big \in BigFiles(workdir) :
                   /\ lastCleanup' = CleanupRecord(backups, clock, reading)
                   /\ backups' = Copied(backups \ Deleted(backups, clock, reading),
                                        clock, big)
    /\ UNCHANGED << clock, clusterVars, pipelineVars >>

\* DELETE /api/cleanup
Cleanup ==
    /\ response' = Answer("cleanup", 200)
    /\ workdir' = workdir \ WorkFiles
    /\ history' = {}
    /\ UNCHANGED << clusterVars, pipelineVars, backupVars >>

\* cleanupOldBackups() in the callback of app.listen and then every 24 hours
ScheduledCleanup ==
    /\ clock % CleanupPeriod = 0
    /\ \E reading \in Readings :
         /\ lastCleanup' = CleanupRecord(backups, clock, reading)
         /\ backups' = backups \ Deleted(backups, clock, reading)
    /\ UNCHANGED << clock, clusterVars, pipelineVars, serverVars >>

\* DELETE /api/backups/cleanup
ManualCleanup ==
    /\ \E reading \in Readings :
         /\ lastCleanup' = CleanupRecord(backups, clock, reading)
         /\ backups' = backups \ Deleted(backups, clock, reading)
    /\ response' = Answer("backups/cleanup", 200)
    /\ UNCHANGED << clock, workdir, history, clusterVars, pipelineVars >>

\* half a day passes
Tick ==
    /\ clock < MaxClock
    /\ clock' = clock + 1
    /\ UNCHANGED << backups, lastCleanup, clusterVars, pipelineVars, serverVars >>

\* the requests of the workflow
ServerNext ==
    \/ UploadInput \/ UploadBankMapping \/ Compare \/ FuzzyMatch \/ ProcessAll
    \/ Cleanup

ServerSpec == ServerInit /\ [][ServerNext]_vars

\* the server has started with the backups of earlier runs: app.listen has not yet
\* called its callback
BackupInit ==
    /\ rows = [ r \in Runs |-> << >> ]
    /\ index = [ r \in Runs |-> 0 ]
    /\ bankGroups = [ r \in Runs |-> << >> ]
    /\ correctedBankNames = [ r \in Runs |-> << >> ]
    /\ pc = [ r \in Runs |-> "loop" ]
    /\ files = [ corrected |-> NoFile, onlyCorrected |-> NoFile,
                 exactMatches |-> NoFile, matchedRecords |-> NoFile ]
    /\ summary = [ r \in Runs |-> NoSummary ]
    /\ matcher = NoCall
    /\ PipelineAtRest
    /\ ServerAtRest
    /\ backups \in SUBSET OldBackups
    /\ clock = 0
    /\ lastCleanup = NoCleanup

\* the calls of cleanupOldBackups as time passes
BackupNext == ScheduledCleanup \/ ManualCleanup \/ ProcessAll \/ Tick

BackupSpec == BackupInit /\ [][BackupNext]_vars

-----------------------------------------------------------------------------
(* Properties of the clustering pass *)

\* the bank names of rws, in order
Names(rws) == [ i \in 1..Len(rws) |-> rws[i].bankName ]

\* the position of the first row of rws bearing name (0 when there is none)
FirstIndex(rws, name) ==
    IF \E i \in 1..Len(rws) : rws[i].bankName = name
    THEN SetMin({ i \in 1..Len(rws) : rws[i].bankName = name })
    ELSE 0

\* run r takes the forEach step on its next row
StepsRow(r) == pc[r] = "loop" /\ index[r] < Len(rows[r]) /\ index'[r] = index[r] + 1

NextRow(r) == rows[r][index[r] + 1]

\* the groups of run r whose canonical name scores at least 70.00 against name
Qualifying(r, name) ==
    { i \in 1..Len(bankGroups[r]) :
        compareNames(name, bankGroups[r][i].key).finalScore >= 7000 }

\* C1: when the row's bank name has no entry in correctedBankNames yet, then, if some
\* group's canonical name scores >= 70 against it, the row is appended to the member
\* list of such a group and the name is mapped to that group's canonical name;
\* otherwise a new group keyed by the name and holding only that row is created and
\* the name is mapped to itself.
C1_AssignOrCreate ==
    [][ \A r \in Runs :
          (StepsRow(r) /\ ~MapHas(correctedBankNames[r], NextRow(r).bankName)) =>
            IF Qualifying(r, NextRow(r).bankName) # {}
            THEN \E i \in Qualifying(r, NextRow(r).bankName) :
                   /\ bankGroups'[r] =
                        [ bankGroups[r] EXCEPT ![i].value = Append(@, NextRow(r)) ]
                   /\ correctedBankNames'[r] =
                        Append(correctedBankNames[r],
                               [ key |-> NextRow(r).bankName,
                                 value |-> bankGroups[r][i].key ])
            ELSE /\ bankGroups'[r] =
                      Append(bankGroups[r],
                             [ key |-> NextRow(r).bankName, value |-> << NextRow(r) >> ])
                 /\ correctedBankNames'[r] =
                      Append(correctedBankNames[r],
                             [ key |-> NextRow(r).bankName,
                               value |-> NextRow(r).bankName ]) ]_vars

\* C1 witness: a run in which a name joined a group at exactly 70.00 and another
\* name started a group of its own
C1_Witness ==
    \E r \in Runs :
      /\ MapKeys(correctedBankNames[r]) = << BoiSbm, CbiSbm, CbiSbi >>
      /\ MapGet(correctedBankNames[r], CbiSbm) = BoiSbm
      /\ MapGet(correctedBankNames[r], CbiSbi) = CbiSbi
      /\ MapKeys(bankGroups[r]) = << BoiSbm, CbiSbi >>
      /\ Names(bankGroups[r][1].value) = << BoiSbm, CbiSbm >>

\* the score of name against the canonical name of group i of run r
GroupScore(r, name, i) == compareNames(name, bankGroups[r][i].key).finalScore

\* C2: the group a new name joins has the highest score among all groups existing
\* at that moment, and among several groups with that score it is the earliest
\* created one.
C2_BestGroupEarliestOnTie ==
    [][ \A r \in Runs :
          ( /\ StepsRow(r)
            /\ ~MapHas(correctedBankNames[r], NextRow(r).bankName)
            /\ Len(bankGroups'[r]) = Len(bankGroups[r])
            /\ bankGroups'[r] # bankGroups[r] ) =>
            \E i \in 1..Len(bankGroups[r]) :
              /\ bankGroups'[r][i].value = Append(bankGroups[r][i].value, NextRow(r))
              /\ \A j \in 1..Len(bankGroups[r]) :
                   /\ GroupScore(r, NextRow(r).bankName, j)
                        <= GroupScore(r, NextRow(r).bankName, i)
                   /\ GroupScore(r, NextRow(r).bankName, j)
                        = GroupScore(r, NextRow(r).bankName, i) => i <= j ]_vars

\* C2 witness: a name that scores 70.00 against two groups has joined the earlier one
C2_Witness ==
    \E r \in Runs :
      /\ MapKeys(correctedBankNames[r]) = << BoiSbm, UbiSbm, CbiSbm >>
      /\ MapKeys(bankGroups[r]) = << BoiSbm, UbiSbm >>
      /\ Names(bankGroups[r][1].value) = << BoiSbm, CbiSbm >>

\* C3: the canonical name of every group is mapped to itself and occurs in the
\* input no later than any name mapped to that group.
C3_CanonicalIsFirstSeen ==
    \A r \in Runs : \A g \in 1..Len(bankGroups[r]) :
      /\ \E e \in 1..Len(correctedBankNames[r]) :
           /\ correctedBankNames[r][e].key = bankGroups[r][g].key
           /\ correctedBankNames[r][e].value = bankGroups[r][g].key
      /\ FirstIndex(rows[r], bankGroups[r][g].key) >= 1
      /\ \A e \in 1..Len(correctedBankNames[r]) :
           correctedBankNames[r][e].value = bankGroups[r][g].key =>
             FirstIndex(rows[r], bankGroups[r][g].key)
               <= FirstIndex(rows[r], correctedBankNames[r][e].key)

\* C3 witness: two later names are mapped to the group of the first name
C3_Witness ==
    \E r \in Runs :
      /\ pc[r] = "done"
      /\ Names(rows[r]) = << UbiSbm, CbiSbm, CbiSbmRaw >>
      /\ MapKeys(bankGroups[r]) = << UbiSbm >>
      /\ Len(correctedBankNames[r]) = 3

\* t holds the rows of s in some order
IsReordering(s, t) ==
    /\ Len(s) = Len(t)
    /\ \A row \in Range(s) \cup Range(t) :
         Cardinality({ i \in 1..Len(s) : s[i] = row })
           = Cardinality({ i \in 1..Len(t) : t[i] = row })

\* names a and b are mapped to the same canonical name by run r
SameCluster(r, a, b) ==
    \E e1, e2 \in 1..Len(correctedBankNames[r]) :
      /\ correctedBankNames[r][e1].key = a
      /\ correctedBankNames[r][e2].key = b
      /\ correctedBankNames[r][e1].value = correctedBankNames[r][e2].value

BothDone == pc[1] = "done" /\ pc[2] = "done"

\* C4 as stated: two runs on two orderings of the same rows put the same names
\* together.
C4_OrderIndependent ==
    (BothDone /\ IsReordering(rows[1], rows[2])) =>
      \A a, b \in Range(Names(rows[1])) : SameCluster(1, a, b) <=> SameCluster(2, a, b)

\* C4 as amended: two runs on two orderings of the same rows in which the distinct
\* bank names first occur in the same order produce the same correction map and the
\* same groups.
C4_FirstOccurrenceOrder ==
    ( /\ BothDone
      /\ IsReordering(rows[1], rows[2])
      /\ Unique(Names(rows[1])) = Unique(Names(rows[2])) ) =>
      /\ correctedBankNames[1] = correctedBankNames[2]
      /\ MapKeys(bankGroups[1]) = MapKeys(bankGroups[2])

\* C4 witness: two finished runs on different orderings with the same order of
\* first occurrences
C4_Witness ==
    /\ BothDone
    /\ Names(rows[1]) = << BoiSbm, CbiSbm, CbiSbi, CbiSbm >>
    /\ Names(rows[2]) = << BoiSbm, CbiSbm, CbiSbm, CbiSbi >>
    /\ IsReordering(rows[1], rows[2])

\* normalize, evaluated once per name
NormalizedTable == [ a \in PoolNames |-> normalize(a) ]

\* both names pass the blank test of compare and normalize to the same string
SameNormalized(a, b) ==
    /\ trim(a) # << >>
    /\ trim(b) # << >>
    /\ NormalizedTable[a] = NormalizedTable[b]

\* C5 as stated: two non-blank names with the same normalized form are mapped to the
\* same canonical name.
C5_SameNormalizedSameCanonical ==
    \A r \in Runs : \A i, j \in 1..Len(correctedBankNames[r]) :
      (i < j /\ SameNormalized(correctedBankNames[r][i].key, correctedBankNames[r][j].key))
        => correctedBankNames[r][i].value = correctedBankNames[r][j].value

\* C5 as amended: two non-blank names with the same normalized form are mapped to the
\* same canonical name unless a group created between their first occurrences scores
\* strictly higher against them than the group of the first.
C5_SameCanonicalUnlessBetterGroup ==
    \A r \in Runs : \A i, j \in 1..Len(correctedBankNames[r]) :
      (i < j /\ SameNormalized(correctedBankNames[r][i].key, correctedBankNames[r][j].key))
        => \/ correctedBankNames[r][i].value = correctedBankNames[r][j].value
           \/ \E h \in (i + 1)..(j - 1) :
                /\ correctedBankNames[r][h].key = correctedBankNames[r][h].value
                /\ compareNames(correctedBankNames[r][j].key,
                                correctedBankNames[r][h].key).finalScore
                     > compareNames(correctedBankNames[r][j].key,
                                    correctedBankNames[r][i].value).finalScore

\* C5 witness: two variants of one name are mapped to the same group although another
\* group, which scores the same, was created between them
C5_Witness ==
    \E r \in Runs :
      /\ MapKeys(correctedBankNames[r]) = << BoiSbm, CbiSbm, UbiSbm, CbiSbmRaw >>
      /\ MapKeys(bankGroups[r]) = << BoiSbm, UbiSbm >>
      /\ MapGet(correctedBankNames[r], CbiSbm) = BoiSbm
      /\ MapGet(correctedBankNames[r], CbiSbmRaw) = BoiSbm

\* run r has written the report files and no other run has written them since
WroteFiles(r) == pc[r] = "done" /\ \A q \in Runs \ {r} : pc[q] # "done"

\* the rows of run r whose bank name is mapped to canonical
MappedRows(r, canonical) ==
    { i \in 1..Len(rows[r]) :
        \E e \in 1..Len(correctedBankNames[r]) :
          /\ correctedBankNames[r][e].key = rows[r][i].bankName
          /\ correctedBankNames[r][e].value = canonical }

\* C6: in exact_matches_report.csv the RecordCount of a cluster is the number of
\* input rows whose bank name is mapped to the cluster's canonical name.
C6_RecordCountIsMembership ==
    \A r \in Runs :
      WroteFiles(r) =>
        \A k \in 1..Len(files.exactMatches.lines) :
          files.exactMatches.lines[k][2]
            = Cardinality(MappedRows(r, files.exactMatches.lines[k][1]))

IsPrefix(s, t) == Len(s) <= Len(t) /\ SubSeq(t, 1, Len(s)) = s

\* C7: in every step the entries of correctedBankNames stay as they are (new ones are
\* only added after them), every group keeps its key and its position, and every
\* member list only grows at its end.
C7_StateOnlyGrows ==
    [][ \A r \in Runs :
          /\ IsPrefix(correctedBankNames[r], correctedBankNames'[r])
          /\ Len(bankGroups[r]) <= Len(bankGroups'[r])
          /\ \A i \in 1..Len(bankGroups[r]) :
               /\ bankGroups'[r][i].key = bankGroups[r][i].key
               /\ IsPrefix(bankGroups[r][i].value, bankGroups'[r][i].value) ]_vars

\* C7 witness: rows bearing an assigned name again have been passed after a later
\* group was created, and the two groups and three entries stand as they were made
C7_Witness ==
    \E r \in Runs :
      /\ index[r] = 4
      /\ Names(rows[r]) = << BoiSbm, CbiSbm, CbiSbi, CbiSbm >>
      /\ MapKeys(bankGroups[r]) = << BoiSbm, CbiSbi >>
      /\ MapGet(correctedBankNames[r], CbiSbm) = BoiSbm

\* at the end of run r, correctedBankNames has one entry for each bank name of the
\* input and no other, and every value is the key of a group
OneEntryPerName(r) ==
    /\ \A i, j \in 1..Len(correctedBankNames[r]) :
         correctedBankNames[r][i].key = correctedBankNames[r][j].key => i = j
    /\ Range(MapKeys(correctedBankNames[r])) = Range(Names(rows[r]))
    /\ \A i \in 1..Len(correctedBankNames[r]) :
         \E g \in 1..Len(bankGroups[r]) :
           bankGroups[r][g].key = correctedBankNames[r][i].value

\* C8: every run reaches its end, and at its end correctedBankNames has exactly one
\* entry for each distinct bank name of the input, each mapped to the key of a group.
C8_CompletesWithOneEntryPerName ==
    /\ \A r \in Runs : <>(pc[r] = "done")
    /\ [](\A r \in Runs : pc[r] = "done" => OneEntryPerName(r))

\* C8 witness: a finished run over four rows with three distinct names
C8_Witness ==
    \E r \in Runs :
      /\ pc[r] = "done"
      /\ Names(rows[r]) = << CbiSbmRaw, Digits12, CbiSbmRaw, Empty >>
      /\ Len(correctedBankNames[r]) = 3

\* C9: the step on a row whose bank name already has an entry in correctedBankNames
\* leaves the groups (keys and member lists), correctedBankNames and the report files
\* as they are.
C9_KnownNameChangesNothing ==
    [][ \A r \in Runs :
          (StepsRow(r) /\ MapHas(correctedBankNames[r], NextRow(r).bankName)) =>
            /\ bankGroups'[r] = bankGroups[r]
            /\ correctedBankNames'[r] = correctedBankNames[r]
            /\ files' = files ]_vars

\* C9 witness: two rows with one name have been processed, the second with other
\* fields than the first
C9_Witness ==
    \E r \in Runs :
      /\ index[r] = 2
      /\ Names(rows[r]) = << BoiSbm, BoiSbm >>
      /\ rows[r][1] # rows[r][2]
      /\ Len(correctedBankNames[r]) = 1

\* C10: two runs on inputs with the same sequence of bank names end with the same
\* correctedBankNames and the same group keys in the same order, whatever the other
\* fields of the rows are.
C10_Deterministic ==
    (BothDone /\ Names(rows[1]) = Names(rows[2])) =>
      /\ correctedBankNames[1] = correctedBankNames[2]
      /\ MapKeys(bankGroups[1]) = MapKeys(bankGroups[2])

\* C10 witness: two finished runs on the same bank names with different other fields
C10_Witness ==
    /\ BothDone
    /\ Names(rows[1]) = << CbiSbi, BoiSbm, CbiSbm >>
    /\ Names(rows[2]) = Names(rows[1])
    /\ rows[1][2].micr # rows[2][2].micr
    /\ MapKeys(bankGroups[1]) = << CbiSbi, BoiSbm >>

\* the sum of the RecordCount fields of the lines of only_corrected_bank_names.csv
RECURSIVE SumOfCounts(_)
SumOfCounts(lines) ==
    IF lines = << >> THEN 0 ELSE Head(lines)[3] + SumOfCounts(Tail(lines))

\* C11: only_corrected_bank_names.csv has exactly one line for each distinct bank
\* name of the input and no other line, the RecordCount of a line is the number of
\* input rows bearing exactly that name, and the RecordCounts add up to the number
\* of input rows.
C11_OneLinePerNameWithItsCount ==
    \A r \in Runs :
      WroteFiles(r) =>
        /\ \A name \in Range(Names(rows[r])) :
             Cardinality({ k \in 1..Len(files.onlyCorrected.lines) :
                             files.onlyCorrected.lines[k][1] = name }) = 1
        /\ \A k \in 1..Len(files.onlyCorrected.lines) :
             /\ files.onlyCorrected.lines[k][1] \in Range(Names(rows[r]))
             /\ files.onlyCorrected.lines[k][3]
                  = Cardinality({ i \in 1..Len(rows[r]) :
                                    rows[r][i].bankName = files.onlyCorrected.lines[k][1] })
        /\ SumOfCounts(files.onlyCorrected.lines) = Len(rows[r])

\* C11 witness: a name borne by two identical rows is counted twice, and the name
\* that joined its cluster once
C11_Witness ==
    \E r \in Runs :
      /\ WroteFiles(r)
      /\ Names(rows[r]) = << BoiSbm, CbiSbm, BoiSbm >>
      /\ rows[r][1] = rows[r][3]
      /\ files.onlyCorrected.lines = << << BoiSbm, BoiSbm, 2 >>, << CbiSbm, BoiSbm, 1 >> >>

\* C12: bank_names_corrected.csv has one line for each input row, in input order,
\* with the row's fields, the corrected name that correctedBankNames holds for the
\* row's bank name, and a MatchScore of 100 when the two names are equal and of
\* compare(original, corrected).finalScore otherwise.
C12_OneLinePerRowWithScore ==
    \A r \in Runs :
      WroteFiles(r) =>
        /\ Len(files.corrected.lines) = Len(rows[r])
        /\ \A i \in 1..Len(rows[r]) :
             /\ files.corrected.lines[i][1] = rows[r][i].micr
             /\ files.corrected.lines[i][2] = rows[r][i].ifsc
             /\ files.corrected.lines[i][3] = rows[r][i].bankName
             /\ \E e \in 1..Len(correctedBankNames[r]) :
                  /\ correctedBankNames[r][e].key = rows[r][i].bankName
                  /\ correctedBankNames[r][e].value = files.corrected.lines[i][4]
             /\ files.corrected.lines[i][5] =
                  IF files.corrected.lines[i][3] = files.corrected.lines[i][4]
                  THEN 10000
                  ELSE CompareTable[files.corrected.lines[i][3],
                                    files.corrected.lines[i][4]].finalScore
             /\ files.corrected.lines[i][6] = rows[r][i].micrLen
             /\ files.corrected.lines[i][7] = rows[r][i].ifscLen

\* C12 witness: the file of a run over a canonical name, a name corrected to it at
\* 70.00 and the empty name, which is its own canonical name
C12_Witness ==
    \E r \in Runs :
      /\ WroteFiles(r)
      /\ Names(rows[r]) = << BoiSbm, CbiSbm, Empty >>
      /\ files.corrected.lines[1][5] = 10000
      /\ files.corrected.lines[2][4] = BoiSbm
      /\ files.corrected.lines[2][5] = 7000
      /\ files.corrected.lines[3][5] = 10000

\* C22: every record of the input is processed: a line with fewer than 5 fields gives
\* a row whose missing fields are empty strings, every row is written to
\* ifsc_matched_records.csv with a corrected name, and all rows with an empty bank
\* name get the same corrected name.
C22_NoRecordRejected ==
    \A r \in Runs :
      /\ \A i \in 1..Len(rows[r]) :
           /\ rows[r][i].micr = "M6" =>
                rows[r][i] = [ micr |-> "M6", ifsc |-> "", bankName |-> << >>,
                               micrLen |-> "", ifscLen |-> "" ]
           /\ rows[r][i].micr = "M7" =>
                rows[r][i] = [ micr |-> "M7", ifsc |-> "I7", bankName |-> Digits12,
                               micrLen |-> "", ifscLen |-> "" ]
      /\ WroteFiles(r) =>
           /\ Len(files.matchedRecords.lines) = Len(rows[r])
           /\ \A i \in 1..Len(rows[r]) :
                /\ files.matchedRecords.lines[i][1] = rows[r][i].micr
                /\ files.matchedRecords.lines[i][3] = rows[r][i].bankName
                /\ \E g \in 1..Len(bankGroups[r]) :
                     bankGroups[r][g].key = files.matchedRecords.lines[i][4]
           /\ \A i, j \in 1..Len(rows[r]) :
                (rows[r][i].bankName = << >> /\ rows[r][j].bankName = << >>) =>
                  files.matchedRecords.lines[i][4] = files.matchedRecords.lines[j][4]

\* C22 witness: a finished run over a line of one field, twice, and a line of three
\* fields between them
C22_Witness ==
    \E r \in Runs :
      /\ WroteFiles(r)
      /\ rows[r] = << LineRow(<< "M6" >>), LineRow(<< "M7", "I7", Digits12 >>),
                      LineRow(<< "M6" >>) >>
      /\ files.matchedRecords.lines[1] = << "M6", "", << >>, << >>, "", "" >>
      /\ files.matchedRecords.lines[3][4] = << >>

\* C28: at every point of a run a name mapped to another name scores at least 70.00
\* against it, and every MatchScore in bank_names_corrected.csv is 100 or at least 70.
C28_CorrectedScoresAtLeast70 ==
    \A r \in Runs :
      /\ \A e \in 1..Len(correctedBankNames[r]) :
           correctedBankNames[r][e].key # correctedBankNames[r][e].value =>
             CompareTable[correctedBankNames[r][e].key,
                          correctedBankNames[r][e].value].finalScore >= 7000
      /\ WroteFiles(r) =>
           \A i \in 1..Len(files.corrected.lines) :
             \/ files.corrected.lines[i][5] = 10000
             \/ files.corrected.lines[i][5] >= 7000

\* C28 witness: a name corrected at exactly 70.00 beside a name that scores 64.29 and
\* keeps itself
C28_Witness ==
    \E r \in Runs :
      /\ WroteFiles(r)
      /\ Names(rows[r]) = << UbiSbm, CbiSbm, CbiSbi >>
      /\ files.corrected.lines[2][4] = UbiSbm
      /\ files.corrected.lines[2][5] = 7000
      /\ files.corrected.lines[3][4] = CbiSbi

\* C29: at every point of a run the canonical name of a group scores below 70.00
\* against the canonical name of every group created before it.
C29_LaterGroupBelow70 ==
    \A r \in Runs : \A i, j \in 1..Len(bankGroups[r]) :
      i < j => CompareTable[bankGroups[r][j].key, bankGroups[r][i].key].finalScore < 7000

\* C29 witness: two groups whose canonical names score 64.29
C29_Witness ==
    \E r \in Runs :
      /\ MapKeys(bankGroups[r]) = << UbiSbm, CbiSbi >>
      /\ CompareTable[CbiSbi, UbiSbm].finalScore = 6429

\* C30: the summary of a finished run satisfies uniqueGroups + correctionsMade =
\* originalUniqueNames <= totalRecords, and uniqueGroups >= 1 when totalRecords >= 1;
\* the names mapped to themselves are the group keys.
C30_SummaryAddsUp ==
    \A r \in Runs :
      pc[r] = "done" =>
        /\ summary[r].totalRecords = Len(rows[r])
        /\ summary[r].uniqueGroups + summary[r].correctionsMade
             = summary[r].originalUniqueNames
        /\ summary[r].originalUniqueNames <= summary[r].totalRecords
        /\ summary[r].totalRecords >= 1 => summary[r].uniqueGroups >= 1
        /\ { correctedBankNames[r][e].key :
               e \in { d \in 1..Len(correctedBankNames[r]) :
                         correctedBankNames[r][d].key = correctedBankNames[r][d].value } }
             = Range(MapKeys(bankGroups[r]))

\* C30 witness: four rows, three names, two groups, one correction
C30_Witness ==
    \E r \in Runs :
      /\ pc[r] = "done"
      /\ Names(rows[r]) = << BoiSbm, CbiSbm, CbiSbi, CbiSbm >>
      /\ summary[r] = [ totalRecords |-> 4, uniqueGroups |-> 2,
                        originalUniqueNames |-> 3, correctionsMade |-> 1 ]

-----------------------------------------------------------------------------
(* Properties of the validation, comparison and sorting stages *)

\* the fields and the written text of a record of the input
FieldsOf(kind, record) == IF kind = "csv" THEN splitComma(record) ELSE record

TextOf(kind, record) == IF kind = "csv" THEN record ELSE joinComma(record)

\* the records the validation has gone through
Handled ==
    IF inputFile.kind = "csv" THEN consumed["filter"]
    ELSE IF stage = "filter" THEN << >> ELSE inputFile.records

\* the blank lines of a .csv file are no records
RecordsOf(kind, records) ==
    { i \in 1..Len(records) : ~(kind = "csv" /\ trim(records[i]) = << >>) }

\* the lines that the records at the places in keep give, in order
RECURSIVE LinesAt(_, _, _, _)
LinesAt(kind, records, keep, i) ==
    IF i > Len(records) THEN << >>
    ELSE (IF i \in keep THEN LinesOf(TextOf(kind, records[i])) ELSE << >>)
         \o LinesAt(kind, records, keep, i + 1)

\* the trimmed field k of a record has n characters
HasLength(fields, k, n) == Len(trim(FieldOrEmpty(fields, k))) = n

\* the trimmed field k of a record has n characters, all on one line
HasLengthOnOneLine(fields, k, n) ==
    /\ HasLength(fields, k, n)
    /\ \A c \in Range(trim(FieldOrEmpty(fields, k))) : c \notin { "\n", "\r" }

\* the two files hold the records at the places in valid and the other records
SplitsRecordsAt(valid) ==
    /\ streams["valid_records.csv"].lines = LinesAt(inputFile.kind, Handled, valid, 1)
    /\ streams["invalid_records.csv"].lines =
         LinesAt(inputFile.kind, Handled, RecordsOf(inputFile.kind, Handled) \ valid, 1)
    /\ counters.correctRecords = Cardinality(valid)
    /\ counters.incorrectRecords = Cardinality(RecordsOf(inputFile.kind, Handled) \ valid)
    /\ counters.totalRecords = counters.correctRecords + counters.incorrectRecords

IfscOf(line) == trim(FieldOrEmpty(splitComma(line), 2))

MicrOf(line) == trim(FieldOrEmpty(splitComma(line), 1))

\* a code is the trimmed cell k of some row of the mapping
InMapping(code, k) ==
    \E j \in 1..Len(mapping) : trim(FieldOrEmpty(mapping[j], k)) = code

\* the places of the lines the comparison has taken whose IFSC is (is not) and whose
\* MICR is (is not) in the mapping
ClassAt(lines, ifscFound, micrFound) ==
    { i \in 1..Len(lines) : /\ InMapping(IfscOf(lines[i]), 2) = ifscFound
                            /\ InMapping(MicrOf(lines[i]), 3) = micrFound }

\* the lines at the places in keep, in order
LinesKept(lines, keep) == LinesAt("csv", lines, keep, 1)

\* C24: the comparison puts every line of the valid file in one of four classes by
\* whether its IFSC and its MICR are in the mapping; each class file holds the lines
\* of its class, ifsc_micr_both_unmatched.csv those with both codes absent; and
\* iM + iU = mM + mU = the number of lines, iU = ifscMissingMicrPresentCount +
\* bothMissingCount, mU = micrMissingIfscPresentCount + bothMissingCount
C24_FourClasses ==
    \E lines \in { consumed["compare"] } :
      /\ streams["ifsc_micr_both_unmatched.csv"].lines =
           LinesKept(lines, ClassAt(lines, FALSE, FALSE))
      /\ streams["ifsc_missing_micr_present.csv"].lines =
           LinesKept(lines, ClassAt(lines, FALSE, TRUE))
      /\ streams["micr_missing_ifsc_present.csv"].lines =
           LinesKept(lines, ClassAt(lines, TRUE, FALSE))
      /\ streams["ifsc_matched.csv"].lines =
           LinesKept(lines, ClassAt(lines, TRUE, TRUE) \cup ClassAt(lines, TRUE, FALSE))
      /\ streams["micr_matched.csv"].lines =
           LinesKept(lines, ClassAt(lines, TRUE, TRUE) \cup ClassAt(lines, FALSE, TRUE))
      /\ streams["ifsc_unmatched.csv"].lines =
           LinesKept(lines, ClassAt(lines, FALSE, TRUE) \cup ClassAt(lines, FALSE, FALSE))
      /\ streams["micr_unmatched.csv"].lines =
           LinesKept(lines, ClassAt(lines, TRUE, FALSE) \cup ClassAt(lines, FALSE, FALSE))
      /\ counters.bothMissingCount = Cardinality(ClassAt(lines, FALSE, FALSE))
      /\ counters.ifscMissingMicrPresentCount = Cardinality(ClassAt(lines, FALSE, TRUE))
      /\ counters.micrMissingIfscPresentCount = Cardinality(ClassAt(lines, TRUE, FALSE))
      /\ counters.iM + counters.iU = Len(lines)
      /\ counters.mM + counters.mU = Len(lines)
      /\ counters.iU = counters.ifscMissingMicrPresentCount + counters.bothMissingCount
      /\ counters.mU = counters.micrMissingIfscPresentCount + counters.bothMissingCount

\* the comparison has closed after a line whose IFSC alone is in the mapping and a
\* line with neither code in the mapping
C24_Witness ==
    /\ stage = "sort"
    /\ Len(consumed["compare"]) = 2
    /\ counters.micrMissingIfscPresentCount = 1
    /\ counters.bothMissingCount = 1
    /\ Len(streams["ifsc_micr_both_unmatched.csv"].lines) = 1

\* the stages in the order of the workflow
StageOrder == << "filter", "compare", "sort", "fuzzy", "done" >>

\* the reader of stage s has closed
HasClosed(s) ==
    /\ stage \in Range(StageOrder)
    /\ IndexIn(StageOrder, stage) > IndexIn(StageOrder, s)

\* C27: the stage after a resolved stage reads the complete output of that stage:
\* once the reader of a stage has closed, it has delivered every line that the
\* stage before it wrote to the file
C27_NextStageReadsAll ==
    \A s \in { "compare", "sort", "fuzzy" } :
      HasClosed(s) => consumed[s] = streams[InputFile(s)].lines

-----------------------------------------------------------------------------
(* Properties of the routes and of the backups *)

\* a request answered with 400 changes neither the working directory nor the history
Refused(route) ==
    /\ response' = Answer(route, 400)
    /\ UNCHANGED << workdir, history >>

\* compare and fuzzy-match refuse a request whose files are missing
GuardsHold ==
    /\ Compare /\ ~({ "valid_records.csv", TempMapping } \subseteq workdir)
         => Refused("compare")
    /\ FuzzyMatch /\ SortedFile \notin workdir => Refused("fuzzy-match")

C26_DeletesBackupsOlderThanAWeek ==
    lastCleanup.ran =>
      lastCleanup.deleted =
        { f \in lastCleanup.before : f.stamped /\ lastCleanup.now - f.stamp > OneWeek }

-----------------------------------------------------------------------------
(* Properties of BestNameMatcher *)

\* compare has been called and has returned
Compared == matcher.method = "compare"

\* x is null, the empty string or a string of whitespace only
IsBlank(x) == x = Null \/ \A i \in 1..Len(x) : IsSpace(x[i])

\* C13 as stated: compare(x, x) has finalScore 100 and category STRONG_MATCH for
\* every non-empty string x.
C13_SelfSimilarNonEmpty ==
    ( /\ Compared
      /\ matcher.args[1] = matcher.args[2]
      /\ matcher.args[1] # Null
      /\ matcher.args[1] # << >> ) =>
      /\ matcher.result.finalScore = 10000
      /\ matcher.result.category = "STRONG_MATCH"

\* C13 as amended: compare(x, x) has finalScore 100 and category STRONG_MATCH for
\* every string x that holds a character other than whitespace.
C13_SelfSimilarNonBlank ==
    ( /\ Compared
      /\ matcher.args[1] = matcher.args[2]
      /\ ~IsBlank(matcher.args[1]) ) =>
      /\ matcher.result.finalScore = 10000
      /\ matcher.result.category = "STRONG_MATCH"

\* C13 witness: a string of digits, whose normalized form is empty, compared with
\* itself
C13_Witness ==
    /\ Compared
    /\ matcher.args = << Digits12, Digits12 >>
    /\ matcher.result.finalScore = 10000

\* C14: compare returns {scores: {}, finalScore: 0, category: NO_MATCH} when either
\* argument is null, empty or whitespace only, and returns a MatchResult for every
\* pair of arguments.
C14_BlankIsNoMatch ==
    Compared =>
      /\ (IsBlank(matcher.args[1]) \/ IsBlank(matcher.args[2])) =>
           /\ DOMAIN matcher.result.scores = {}
           /\ matcher.result.finalScore = 0
           /\ matcher.result.category = "NO_MATCH"
      /\ DOMAIN matcher.result = { "scores", "finalScore", "category" }
      /\ matcher.result.finalScore \in 0..10000
      /\ matcher.result.category
           \in { "STRONG_MATCH", "POSSIBLE_MATCH", "WEAK_MATCH", "NO_MATCH" }

\* C14 witness: the same whitespace-only string on both sides
C14_Witness ==
    /\ Compared
    /\ matcher.args = << TabBlank, TabBlank >>
    /\ matcher.result.finalScore = 0

\* C15: for two arguments that are not blank and have the same normalized form,
\* compare returns finalScore 100, category STRONG_MATCH and no metric scores.
C15_SameNormalizedIsStrong ==
    ( /\ Compared
      /\ ~IsBlank(matcher.args[1])
      /\ ~IsBlank(matcher.args[2])
      /\ normalize(matcher.args[1]) = normalize(matcher.args[2]) ) =>
      /\ DOMAIN matcher.result.scores = {}
      /\ matcher.result.finalScore = 10000
      /\ matcher.result.category = "STRONG_MATCH"

\* C15 witness: two different strings of digits, both normalized to the empty string
C15_Witness ==
    /\ Compared
    /\ matcher.args = << Digits12, Digits34 >>
    /\ matcher.result.finalScore = 10000
    /\ DOMAIN matcher.result.scores = {}

\* the category of a score in hundredths, by the intervals [85, ...), [70, 85),
\* [60, 70) and (..., 60)
CategoryFor(score) ==
    CHOOSE c \in { "STRONG_MATCH", "POSSIBLE_MATCH", "WEAK_MATCH", "NO_MATCH" } :
      \/ c = "STRONG_MATCH"   /\ score >= 8500
      \/ c = "POSSIBLE_MATCH" /\ score >= 7000 /\ score < 8500
      \/ c = "WEAK_MATCH"     /\ score >= 6000 /\ score < 7000
      \/ c = "NO_MATCH"       /\ score < 6000

\* C16: categorize maps a score >= 85 to STRONG_MATCH, a score in [70, 85) to
\* POSSIBLE_MATCH, a score in [60, 70) to WEAK_MATCH and a score below 60 to
\* NO_MATCH, and the category of every result of compare is the category of its
\* finalScore.
C16_InclusiveLowerBounds ==
    /\ matcher.method = "categorize" => matcher.result = CategoryFor(matcher.args[1])
    /\ Compared => matcher.result.category = CategoryFor(matcher.result.finalScore)

\* C16 witness: a pair of names that scores exactly 70.00 is a POSSIBLE_MATCH
C16_Witness ==
    /\ Compared
    /\ matcher.args = << CbiSbm, BoiSbm >>
    /\ matcher.result.finalScore = 7000
    /\ matcher.result.category = "POSSIBLE_MATCH"

\* a score n/d lies in [0, 100]
InPercentRange(x) == x[2] > 0 /\ 0 <= x[1] /\ x[1] <= 100 * x[2]

\* 100 times the weighted sum of the five metric scores, as a fraction
HundredTimesWeighted(scores) ==
    FracAdd(FracMul(scores.LEVENSHTEIN, << 25, 1 >>),
    FracAdd(FracMul(scores.JARO_WINKLER, << 30, 1 >>),
    FracAdd(FracMul(scores.TOKEN_SORT, << 20, 1 >>),
    FracAdd(FracMul(scores.TOKEN_SET, << 15, 1 >>),
            FracMul(scores.PHONETIC, << 10, 1 >>)))))

\* the whole number of hundredths v is within half a hundredth of the fraction x
IsRoundingOf(v, x) ==
    /\ 2 * (v * x[2] - x[1]) <= x[2]
    /\ 2 * (x[1] - v * x[2]) <= x[2]

\* C17: when compare computes the five metrics, each of them lies in [0, 100], the
\* weights 0.25, 0.30, 0.20, 0.15 and 0.10 add up to 1, and finalScore is their
\* weighted sum rounded to two decimals, which lies in [0, 100].
C17_WeightedSumRounded ==
    (Compared /\ DOMAIN matcher.result.scores # {}) =>
      /\ DOMAIN matcher.result.scores
           = { "LEVENSHTEIN", "JARO_WINKLER", "TOKEN_SORT", "TOKEN_SET", "PHONETIC" }
      /\ \A k \in DOMAIN matcher.result.scores : InPercentRange(matcher.result.scores[k])
      /\ 25 + 30 + 20 + 15 + 10 = 100
      /\ IsRoundingOf(matcher.result.finalScore, HundredTimesWeighted(matcher.result.scores))
      /\ matcher.result.finalScore \in 0..10000

\* C17 witness: compare(KITTEN, SITTING) computes the five metrics; 56.67
C17_Witness ==
    /\ Compared
    /\ matcher.args = << Kitten, Sitting >>
    /\ matcher.result.scores.LEVENSHTEIN = << 400, 7 >>
    /\ matcher.result.finalScore = 5667

\* t results from s by inserting, deleting or replacing one character
OneEdit(s, t) ==
    \/ /\ Len(s) = Len(t)
       /\ Cardinality({ i \in 1..Len(s) : s[i] # t[i] }) = 1
    \/ /\ Len(t) = Len(s) + 1
       /\ \E i \in 1..Len(t) : s = SubSeq(t, 1, i - 1) \o SubSeq(t, i + 1, Len(t))
    \/ /\ Len(s) = Len(t) + 1
       /\ \E i \in 1..Len(s) : t = SubSeq(s, 1, i - 1) \o SubSeq(s, i + 1, Len(s))

\* (x @@ << >> is x, written out as an explicit table)
EditNeighbours == [ s \in ShortNames |-> { t \in ShortNames : OneEdit(s, t) } ] @@ << >>

\* levels[k + 1] holds the short names that at most k single-character edits make
\* of the name in levels[1]; the levels up to MaxNameLen edits
RECURSIVE GrowLevels(_)
GrowLevels(levels) ==
    IF Len(levels) = MaxNameLen + 1 THEN levels
    ELSE GrowLevels(Append(levels,
                           levels[Len(levels)]
                             \cup UNION { EditNeighbours[s] : s \in levels[Len(levels)] }))

WithinEdits == [ a \in ShortNames |-> GrowLevels(<< { a } >>) ] @@ << >>

\* the least number of single-character edits that turn a into b (a path of least
\* length never passes a string longer than the longer of a and b)
EditDistance(a, b) == SetMin({ k \in 0..MaxNameLen : b \in WithinEdits[a][k + 1] })

\* C18: levenshteinScore(a, b) is (1 - d / max(|a|, |b|)) * 100, d being the least
\* number of single-character insertions, deletions and substitutions that turn a
\* into b; it is 400/7 for KITTEN and SITTING and 100 for two empty strings.
C18_LevenshteinScore ==
    matcher.method = "levenshteinScore" =>
      /\ (matcher.args[1] \in ShortNames /\ matcher.args[2] \in ShortNames) =>
           IF matcher.args[1] = << >> /\ matcher.args[2] = << >>
           THEN matcher.result = << 100, 1 >>
           ELSE matcher.result[1] * Max2(Len(matcher.args[1]), Len(matcher.args[2]))
                  = matcher.result[2] * 100
                      * (Max2(Len(matcher.args[1]), Len(matcher.args[2]))
                           - EditDistance(matcher.args[1], matcher.args[2]))
      /\ matcher.args = << Kitten, Sitting >> => matcher.result = << 400, 7 >>

\* C18 witness: levenshteinScore(KITTEN, SITTING) = 400/7
C18_Witness ==
    /\ matcher.method = "levenshteinScore"
    /\ matcher.args = << Kitten, Sitting >>
    /\ matcher.result = << 400, 7 >>

\* the letters of s, in upper case
LettersOf(s) == SelectSeq(toUpperCase(s), IsUpper)

\* the first letter, then the digits of the remaining letters only (runs of one
\* digit collapsed, zeros removed), padded with zeros and cut to 4 characters
SoundexOfRemaining(letters) ==
    SubSeq(<< letters[1] >>
           \o SelectSeq(CollapseRuns([ i \in 1..(Len(letters) - 1) |->
                                         SoundexDigit(letters[i + 1]) ]),
                        LAMBDA c : c # "0")
           \o << "0", "0", "0" >>, 1, 4)

\* C19: for a string with at least one letter, soundex returns the first letter
\* followed by the digits obtained from the remaining letters only, padded with
\* zeros and cut to 4 characters.
C19_SoundexOfRemainingLetters ==
    ( /\ matcher.method = "soundex"
      /\ matcher.args[1] # Null
      /\ LettersOf(matcher.args[1]) # << >> ) =>
      matcher.result = SoundexOfRemaining(LettersOf(matcher.args[1]))

\* C20: soundex returns the empty string for an argument without letters and
\* otherwise one letter followed by three digits in 0..6; it returns S530 for
\* Smith and for Smyth.
C20_SoundexShape ==
    matcher.method = "soundex" =>
      /\ IF matcher.args[1] = Null \/ LettersOf(matcher.args[1]) = << >>
         THEN matcher.result = << >>
         ELSE /\ Len(matcher.result) = 4
              /\ matcher.result[1] \in Range(UpperLetters)
              /\ \A i \in 2..4 : matcher.result[i] \in { "0", "1", "2", "3", "4", "5", "6" }
      /\ matcher.args[1] \in { Smith, Smyth } => matcher.result = << "S", "5", "3", "0" >>

\* C20 witness: soundex(Smyth) = S530
C20_Witness ==
    /\ matcher.method = "soundex"
    /\ matcher.args[1] = Smyth
    /\ matcher.result = << "S", "5", "3", "0" >>

\* C21: normalize(normalize(x)) = normalize(x), and normalize(x) holds only the
\* letters A-Z and single spaces, with no space at its start or end (the empty
\* string for the empty string).
C21_NormalizeIdempotent ==
    matcher.method = "normalize" =>
      /\ normalize(matcher.result) = matcher.result
      /\ \A i \in 1..Len(matcher.result) :
           /\ matcher.result[i] \in Range(UpperLetters) \cup { " " }
           /\ (i > 1 /\ matcher.result[i] = " ") => matcher.result[i - 1] # " "
      /\ matcher.result # << >> =>
           /\ matcher.result[1] # " "
           /\ matcher.result[Len(matcher.result)] # " "
      /\ matcher.args[1] = << >> => matcher.result = << >>

\* C21 witness: lower case, a tab, a digit, two spaces and spaces at both ends
C21_Witness ==
    /\ matcher.method = "normalize"
    /\ matcher.args[1] = TabbedName
    /\ matcher.result = << "A", "B", " ", "C" >>

=============================================================================
